---- MODULE Spec2Model ----
(***************************************************************************)
(* Model of the verysleepy-mcp profile model and analysis engine:          *)
(* internal/sleepy (ProfileData, buildSymbolMap, ResolveCallstack,         *)
(* GetDuration) and internal/analyzer (FindHotspots, FindBottomFunctions,  *)
(* FindModuleHotspots, ComputeStatistics, GetFunctionCallFrequencies,      *)
(* DetectPerformanceIssues).                                               *)
(*                                                                         *)
(* Conventions.                                                            *)
(*   - A Go string is a sequence of one-character strings, so that         *)
(*     formatting (fmt.Sprintf) and parsing (strconv.ParseUint) are         *)
(*     computed character by character.  Severity and Category labels,     *)
(*     which the code only copies, are plain strings.                      *)
(*   - A float64 is an exact rational.  Durations are small naturals; a    *)
(*     quotient such as (TotalTime / totalProfileTime) * 100.0 is the      *)
(*     record [num |-> TotalTime * 100, den |-> totalProfileTime].         *)
(*     Rounding of float64 is not modelled.                                *)
(*   - A Go map is a function; ranging over a map yields its entries in    *)
(*     any order, and sort.Slice (not stable) yields any ordering that is  *)
(*     sorted for its less function.                                       *)
(***************************************************************************)
EXTENDS Integers, Sequences, FiniteSets, TLC

VARIABLES profile, result, loaded, profileCache, response, lastLoaded

vars == <<profile, result, loaded, profileCache, response, lastLoaded>>

(***************************************************************************)
(* Bounds of the model.                                                    *)
(***************************************************************************)
\* samples per profile, for the profiles with varied stacks
MaxSamples == 2
\* samples per profile, for the profiles with one-address stacks
MaxLongSamples == 5

\* samples (and functions) of the largest profile with nested stacks
MaxNested == 11
\* samples per profile, for the profiles with stacks 50 and 51 deep
MaxDeepSamples == 2
\* members per archive
MaxMembers == 3
\* lines per Symbols.txt parsed on its own
MaxSymbolLines == 2
\* lines per Threads.txt parsed on its own
MaxThreadLines == 3
\* characters per line split into fields on its own
MaxLineLen == 4
\* lines of a Callstacks.txt parsed on its own
MaxSampleLines == 3
\* members of an archive whose handles are followed
MaxHeldMembers == 2

(***************************************************************************)
(* Text: strings.HasPrefix, strings.TrimPrefix, strconv.ParseUint(s, 16,   *)
(* 64) and the verb %X of fmt.                                             *)
(***************************************************************************)
HasPrefix(s, p) == Len(s) >= Len(p) /\ SubSeq(s, 1, Len(p)) = p

TrimPrefix(s, p) == IF HasPrefix(s, p) THEN SubSeq(s, Len(p) + 1, Len(s)) ELSE s

\* value of one hexadecimal digit, -1 for any other character
HexDigitValue(c) ==
  CASE c = "0" -> 0 [] c = "1" -> 1 [] c = "2" -> 2 [] c = "3" -> 3
    [] c = "4" -> 4 [] c = "5" -> 5 [] c = "6" -> 6 [] c = "7" -> 7
    [] c = "8" -> 8 [] c = "9" -> 9
    [] c = "a" -> 10 [] c = "b" -> 11 [] c = "c" -> 12
    [] c = "d" -> 13 [] c = "e" -> 14 [] c = "f" -> 15
    [] c = "A" -> 10 [] c = "B" -> 11 [] c = "C" -> 12
    [] c = "D" -> 13 [] c = "E" -> 14 [] c = "F" -> 15
    [] OTHER -> -1

RECURSIVE ParseHexDigits(_, _, _)
ParseHexDigits(s, k, acc) ==
  IF k > Len(s) THEN [ok |-> TRUE, val |-> acc]
  ELSE IF HexDigitValue(s[k]) < 0 THEN [ok |-> FALSE, val |-> 0]
  ELSE ParseHexDigits(s, k + 1, acc * 16 + HexDigitValue(s[k]))

\* strconv.ParseUint(s, 16, 64): the empty string and any non-digit are
\* errors.  The texts of the model have at most four digits, so the 64-bit
\* range error never arises.
ParseUint16(s) ==
  IF Len(s) = 0 THEN [ok |-> FALSE, val |-> 0] ELSE ParseHexDigits(s, 1, 0)

UpperHexDigits ==
  <<"0", "1", "2", "3", "4", "5", "6", "7", "8", "9", "A", "B", "C", "D", "E", "F">>

\* fmt.Sprintf("%X", n)
RECURSIVE FormatHex(_)
FormatHex(n) ==
  IF n < 16 THEN <<UpperHexDigits[n + 1]>>
  ELSE FormatHex(n \div 16) \o <<UpperHexDigits[(n % 16) + 1]>>

\* fmt.Sprintf("%d", n)
RECURSIVE FormatDecimal(_)
FormatDecimal(n) ==
  IF n < 10 THEN <<UpperHexDigits[n + 1]>>
  ELSE FormatDecimal(n \div 10) \o <<UpperHexDigits[(n % 10) + 1]>>

\* Placeholder with the verb %d for %X
PlaceholderDecimal(addr) == <<"[", "0", "x">> \o FormatDecimal(addr) \o <<"]">>

\* fmt.Sprintf("[0x%X]", addr)
Placeholder(addr) == <<"[", "0", "x">> \o FormatHex(addr) \o <<"]">>

\* the module of a frame whose address has no symbol
UnresolvedModule == <<"?">>

(***************************************************************************)
(* Rationals standing for float64 values.                                  *)
(***************************************************************************)
Zero == [num |-> 0, den |-> 1]

\* a / b * 100.0, b > 0
Percent(a, b) == [num |-> a * 100, den |-> b]

RatGt(p, q) == p.num * q.den > q.num * p.den

\* p > k for an integer k
GtInt(p, k) == p.num > k * p.den

(***************************************************************************)
(* sleepy.ProfileData                                                      *)
(***************************************************************************)
\* buildSymbolMap: the symbols are visited in order and a later symbol
\* replaces an earlier one at the same address; a symbol whose address has
\* no 0x prefix or does not parse is skipped.
\* BuildSymbolMapFrom in which the first symbol of an address stays
RECURSIVE BuildSymbolMapFirst(_, _, _)
BuildSymbolMapFirst(Symbols, i, symbolMap) ==
  IF i > Len(Symbols) THEN symbolMap
  ELSE LET sym == Symbols[i]
           parsed == ParseUint16(TrimPrefix(sym.Address, <<"0", "x">>))
       IN IF HasPrefix(sym.Address, <<"0", "x">>) /\ parsed.ok
          THEN BuildSymbolMapFirst(Symbols, i + 1, symbolMap @@ (parsed.val :> sym))
          ELSE BuildSymbolMapFirst(Symbols, i + 1, symbolMap)

RECURSIVE BuildSymbolMapFrom(_, _, _)
BuildSymbolMapFrom(Symbols, i, symbolMap) ==
  IF i > Len(Symbols) THEN symbolMap
  ELSE LET sym == Symbols[i]
           parsed == ParseUint16(TrimPrefix(sym.Address, <<"0", "x">>))
       IN IF HasPrefix(sym.Address, <<"0", "x">>) /\ parsed.ok
          THEN BuildSymbolMapFrom(Symbols, i + 1, (parsed.val :> sym) @@ symbolMap)
          ELSE BuildSymbolMapFrom(Symbols, i + 1, symbolMap)

buildSymbolMap(Symbols) == BuildSymbolMapFrom(Symbols, 1, <<>>)

\* Callstack.GetDuration: the first entry met when ranging over ThreadCounts,
\* 0 for an empty map.  parseCallstacks gives every sample exactly one entry.
GetDuration(cs) ==
  IF DOMAIN cs.ThreadCounts = {} THEN 0
  ELSE cs.ThreadCounts[CHOOSE id \in DOMAIN cs.ThreadCounts : TRUE]

\* one frame of ResolveCallstack
ResolveAddress(pd, addr) ==
  IF addr \in DOMAIN pd.symbolMap
  THEN [Address |-> addr,
        Module |-> pd.symbolMap[addr].ModuleName,
        Function |-> pd.symbolMap[addr].ProcName,
        SourceFile |-> pd.symbolMap[addr].FilePath,
        LineNumber |-> pd.symbolMap[addr].LineNumber]
  ELSE [Address |-> addr,
        Module |-> UnresolvedModule,
        Function |-> Placeholder(addr),
        SourceFile |-> <<>>,
        LineNumber |-> 0]

\* ResolveCallstack that emits no frame for an address without symbol
ResolveCallstackSkipping(pd, callstack) ==
  LET found == SelectSeq(callstack.Addresses, LAMBDA a : a \in DOMAIN pd.symbolMap)
  IN [k \in 1..Len(found) |-> ResolveAddress(pd, found[k])]

ResolveCallstack(pd, callstack) ==
  [k \in 1..Len(callstack.Addresses) |-> ResolveAddress(pd, callstack.Addresses[k])]

\* fmt.Sprintf("%s!%s", frame.Module, frame.Function)
funcSig(frame) == frame.Module \o <<"!">> \o frame.Function

(***************************************************************************)
(* Orderings.  SortedOrders(S, less) is the set of the sequences that hold *)
(* every element of S once and in which no element is followed by one that *)
(* less puts before it: the results sort.Slice can give for the elements   *)
(* of a map, whatever order the iteration delivered them in.               *)
(***************************************************************************)
RECURSIVE SortedOrders(_, _)
SortedOrders(S, less) ==
  IF S = {} THEN {<<>>}
  ELSE UNION { { <<x>> \o t : t \in SortedOrders(S \ {x}, less) } :
               x \in { y \in S : \A z \in S : ~less[z, y] } }

\* TopN with topN >= 0 for topN > 0
TopNFromZero(s, topN) == IF topN >= 0 /\ topN < Len(s) THEN SubSeq(s, 1, topN) ELSE s

\* hotspots[:topN] when 0 < topN < len(hotspots), hotspots otherwise
TopN(s, topN) == IF topN > 0 /\ topN < Len(s) THEN SubSeq(s, 1, topN) ELSE s

RECURSIVE SumDurations(_, _)
SumDurations(Callstacks, i) ==
  IF i > Len(Callstacks) THEN 0
  ELSE GetDuration(Callstacks[i]) + SumDurations(Callstacks, i + 1)

(***************************************************************************)
(* analyzer.FindHotspots                                                   *)
(***************************************************************************)
NewHotspot(frame) ==
  [Function |-> frame.Function,
   Module |-> frame.Module,
   SourceFile |-> frame.SourceFile,
   LineNumber |-> frame.LineNumber,
   TotalTime |-> 0,
   SampleCount |-> 0,
   Percentage |-> Zero,
   CallstackRefs |-> <<>>]

\* hs.TotalTime += duration; hs.SampleCount++; append csIdx
AddSample(hs, duration, csIdx) ==
  [hs EXCEPT !.TotalTime = @ + duration,
             !.SampleCount = @ + 1,
             !.CallstackRefs = Append(@, csIdx)]

\* The loops over the frames of one stack (FindHotspots, FindModuleHotspots,
\* GetFunctionCallFrequencies) keep a set of the keys seen in the stack and
\* update the entry of a key at the first frame that carries it: the frames
\* FirstFrames(frames) selects, each with a key of its own.  The maps
\* below are the result of the whole loop, written without recursion so
\* that stacks of 51 frames stay within the evaluator's stack.
FirstFrames(frames) ==
  { k \in 1..Len(frames) : \A j \in 1..(k - 1) : funcSig(frames[j]) # funcSig(frames[k]) }

\* CountFrames without the test of seenInThisStack: a function met n times
\* in one stack is counted n times
CountFramesTwice(hotspotMap, frames, duration, csIdx) ==
  LET first == FirstFrames(frames)
      times(k) == Cardinality({ j \in 1..Len(frames) : funcSig(frames[j]) = funcSig(frames[k]) })
      hs(k) == IF funcSig(frames[k]) \in DOMAIN hotspotMap
               THEN hotspotMap[funcSig(frames[k])]
               ELSE NewHotspot(frames[k])
      counted(k) == [hs(k) EXCEPT !.TotalTime = @ + times(k) * duration,
                                  !.SampleCount = @ + times(k),
                                  !.CallstackRefs = @ \o [j \in 1..times(k) |-> csIdx]]
  IN [sig \in DOMAIN hotspotMap \cup { funcSig(frames[k]) : k \in first } |->
        IF \E k \in first : funcSig(frames[k]) = sig
        THEN counted(CHOOSE k \in first : funcSig(frames[k]) = sig)
        ELSE hotspotMap[sig]]

\* the inner loop of FindHotspots over the frames of callstack csIdx
\* (csIdx counts from 0 as in the code): the entry of every function of the
\* stack, created from its first frame if the map has none, gets the sample
CountFrames(hotspotMap, frames, duration, csIdx) ==
  LET first == FirstFrames(frames)
      hs(k) == IF funcSig(frames[k]) \in DOMAIN hotspotMap
               THEN hotspotMap[funcSig(frames[k])]
               ELSE NewHotspot(frames[k])
  IN [sig \in DOMAIN hotspotMap \cup { funcSig(frames[k]) : k \in first } |->
        IF \E k \in first : funcSig(frames[k]) = sig
        THEN AddSample(hs(CHOOSE k \in first : funcSig(frames[k]) = sig), duration, csIdx)
        ELSE hotspotMap[sig]]

\* the outer loop of FindHotspots over the callstacks
RECURSIVE HotspotScan(_, _, _)
HotspotScan(pd, i, hotspotMap) ==
  IF i > Len(pd.Callstacks) THEN hotspotMap
  ELSE HotspotScan(pd, i + 1,
         CountFrames(hotspotMap, ResolveCallstack(pd, pd.Callstacks[i]),
                     GetDuration(pd.Callstacks[i]), i - 1))

\* hs.Percentage = (hs.TotalTime / totalProfileTime) * 100.0 when the total
\* is positive
WithPercentage(hs, totalProfileTime) ==
  IF totalProfileTime > 0
  THEN [hs EXCEPT !.Percentage = Percent(hs.TotalTime, totalProfileTime)]
  ELSE hs

\* the entries of hotspotMap with their percentages, before the sort
HotspotEntries(pd) ==
  LET hotspotMap == HotspotScan(pd, 1, <<>>)
      totalProfileTime == SumDurations(pd.Callstacks, 1)
  IN { WithPercentage(hotspotMap[sig], totalProfileTime) : sig \in DOMAIN hotspotMap }

\* less of the sort of FindHotspots and FindBottomFunctions
ByTotalTime(S) == [p \in S \X S |-> p[1].TotalTime > p[2].TotalTime]

\* every slice FindHotspots(profile, topN) can return
FindHotspots(pd, topN) ==
  LET entries == HotspotEntries(pd)
  IN { TopN(s, topN) : s \in SortedOrders(entries, ByTotalTime(entries)) }

(***************************************************************************)
(* analyzer.FindBottomFunctions                                            *)
(***************************************************************************)
\* the loop of FindBottomFunctions: a callstack without frames is skipped,
\* any other adds its duration to the entry of its first frame
RECURSIVE BottomScan(_, _, _)
BottomScan(pd, i, bottomFuncMap) ==
  IF i > Len(pd.Callstacks) THEN bottomFuncMap
  ELSE LET frames == ResolveCallstack(pd, pd.Callstacks[i])
           duration == GetDuration(pd.Callstacks[i])
       IN IF Len(frames) = 0
          THEN BottomScan(pd, i + 1, bottomFuncMap)
          ELSE LET sig == funcSig(frames[1])
                   hs == IF sig \in DOMAIN bottomFuncMap
                         THEN bottomFuncMap[sig]
                         ELSE NewHotspot(frames[1])
               IN BottomScan(pd, i + 1,
                    (sig :> AddSample(hs, duration, i - 1)) @@ bottomFuncMap)

BottomEntries(pd) ==
  LET bottomFuncMap == BottomScan(pd, 1, <<>>)
      totalProfileTime == SumDurations(pd.Callstacks, 1)
  IN { WithPercentage(bottomFuncMap[sig], totalProfileTime) : sig \in DOMAIN bottomFuncMap }

\* every slice FindBottomFunctions(profile, topN) can return
FindBottomFunctions(pd, topN) ==
  LET entries == BottomEntries(pd)
  IN { TopN(s, topN) : s \in SortedOrders(entries, ByTotalTime(entries)) }

(***************************************************************************)
(* analyzer.FindModuleHotspots                                             *)
(***************************************************************************)
UnknownModule == <<"[", "u", "n", "k", "n", "o", "w", "n", "]">>

\* module == "" || module == "?" is replaced by "[unknown]"
ModuleBucket(module) ==
  IF module = <<>> \/ module = UnresolvedModule THEN UnknownModule ELSE module

\* the inner loop of FindModuleHotspots: every module of the stack gets the
\* duration once
\* CountModules without seenModules: every frame adds the duration
CountModulesEveryFrame(moduleTime, frames, duration) ==
  LET modules == { ModuleBucket(frames[k].Module) : k \in 1..Len(frames) }
      times(module) == Cardinality({ k \in 1..Len(frames) :
                                      ModuleBucket(frames[k].Module) = module })
  IN [module \in DOMAIN moduleTime \cup modules |->
        (IF module \in DOMAIN moduleTime THEN moduleTime[module] ELSE 0)
          + times(module) * duration]

CountModules(moduleTime, frames, duration) ==
  LET modules == { ModuleBucket(frames[k].Module) : k \in 1..Len(frames) }
  IN [module \in DOMAIN moduleTime \cup modules |->
        IF module \in modules
        THEN (IF module \in DOMAIN moduleTime THEN moduleTime[module] ELSE 0) + duration
        ELSE moduleTime[module]]

RECURSIVE ModuleScan(_, _, _)
ModuleScan(pd, i, moduleTime) ==
  IF i > Len(pd.Callstacks) THEN moduleTime
  ELSE ModuleScan(pd, i + 1,
         CountModules(moduleTime, ResolveCallstack(pd, pd.Callstacks[i]),
                      GetDuration(pd.Callstacks[i])))

FindModuleHotspots(pd) == ModuleScan(pd, 1, <<>>)

(***************************************************************************)
(* analyzer.ComputeStatistics                                              *)
(***************************************************************************)
MaxInt32 == 2147483647

ZeroStatistics ==
  [TotalTime |-> 0, TotalCallstacks |-> 0, TotalSymbols |-> 0,
   AverageStackDepth |-> Zero, MaxStackDepth |-> 0, MinStackDepth |-> 0,
   UniqueModules |-> 0, UniqueFunctions |-> 0]

\* the loop of ComputeStatistics; acc holds TotalTime, totalDepth, the two
\* depths, moduleSet and functionSet
RECURSIVE StatisticsScan(_, _, _)
StatisticsScan(pd, i, acc) ==
  IF i > Len(pd.Callstacks) THEN acc
  ELSE LET cs == pd.Callstacks[i]
           depth == Len(cs.Addresses)
           frames == ResolveCallstack(pd, cs)
       IN StatisticsScan(pd, i + 1,
            [TotalTime |-> acc.TotalTime + GetDuration(cs),
             totalDepth |-> acc.totalDepth + depth,
             MaxStackDepth |-> IF depth > acc.MaxStackDepth THEN depth
                               ELSE acc.MaxStackDepth,
             MinStackDepth |-> IF depth < acc.MinStackDepth THEN depth
                               ELSE acc.MinStackDepth,
             moduleSet |-> acc.moduleSet \cup
               { frames[k].Module : k \in { j \in 1..Len(frames) :
                   frames[j].Module # <<>> /\ frames[j].Module # UnresolvedModule } },
             functionSet |-> acc.functionSet \cup
               { funcSig(frames[k]) : k \in 1..Len(frames) }])

\* stats.TotalCallstacks and stats.TotalSymbols, set before the test for an
\* empty profile
CountedStatistics(pd) ==
  [ZeroStatistics EXCEPT !.TotalCallstacks = Len(pd.Callstacks),
                         !.TotalSymbols = Len(pd.Symbols)]

\* the rest of ComputeStatistics, for a profile with samples
ScannedStatistics(pd, counted) ==
  LET acc == StatisticsScan(pd, 1,
               [TotalTime |-> 0, totalDepth |-> 0, MaxStackDepth |-> 0,
                MinStackDepth |-> MaxInt32, moduleSet |-> {},
                functionSet |-> {}])
  IN [counted EXCEPT
        !.TotalTime = acc.TotalTime,
        !.AverageStackDepth =
           [num |-> acc.totalDepth, den |-> counted.TotalCallstacks],
        !.MaxStackDepth = acc.MaxStackDepth,
        !.MinStackDepth = IF acc.MinStackDepth = MaxInt32 THEN 0
                          ELSE acc.MinStackDepth,
        !.UniqueModules = Cardinality(acc.moduleSet),
        !.UniqueFunctions = Cardinality(acc.functionSet)]

\* ComputeStatistics that returns the zero record before it counts anything
ComputeStatisticsCountLate(pd) ==
  IF Len(pd.Callstacks) = 0 THEN ZeroStatistics
  ELSE ScannedStatistics(pd, CountedStatistics(pd))

ComputeStatistics(pd) ==
  IF CountedStatistics(pd).TotalCallstacks = 0 THEN CountedStatistics(pd)
  ELSE ScannedStatistics(pd, CountedStatistics(pd))

(***************************************************************************)
(* analyzer.GetFunctionCallFrequencies                                     *)
(***************************************************************************)
\* the inner loop of GetFunctionCallFrequencies: the entry of every function
\* of the stack, created from its first frame if the map has none, counts
\* the stack once
CountPresence(funcCount, frames) ==
  LET first == FirstFrames(frames)
      freq(k) == IF funcSig(frames[k]) \in DOMAIN funcCount
                 THEN funcCount[funcSig(frames[k])]
                 ELSE [Function |-> frames[k].Function,
                       Module |-> frames[k].Module,
                       Count |-> 0,
                       Percentage |-> Zero]
  IN [sig \in DOMAIN funcCount \cup { funcSig(frames[k]) : k \in first } |->
        IF \E k \in first : funcSig(frames[k]) = sig
        THEN [freq(CHOOSE k \in first : funcSig(frames[k]) = sig) EXCEPT !.Count = @ + 1]
        ELSE funcCount[sig]]

RECURSIVE FrequencyScan(_, _, _)
FrequencyScan(pd, i, funcCount) ==
  IF i > Len(pd.Callstacks) THEN funcCount
  ELSE FrequencyScan(pd, i + 1,
         CountPresence(funcCount, ResolveCallstack(pd, pd.Callstacks[i])))

FrequencyEntries(pd) ==
  LET funcCount == FrequencyScan(pd, 1, <<>>)
      totalStacks == Len(pd.Callstacks)
  IN { IF totalStacks > 0
       THEN [funcCount[sig] EXCEPT !.Percentage = Percent(funcCount[sig].Count, totalStacks)]
       ELSE funcCount[sig] : sig \in DOMAIN funcCount }

ByCount(S) == [p \in S \X S |-> p[1].Count > p[2].Count]

\* every slice GetFunctionCallFrequencies(profile) can return
GetFunctionCallFrequencies(pd) ==
  LET entries == FrequencyEntries(pd)
  IN SortedOrders(entries, ByCount(entries))

(***************************************************************************)
(* analyzer.DetectPerformanceIssues                                        *)
(***************************************************************************)
\* stats.MaxStackDepth > 50
DeepStackDepth == 50
\* hs.Percentage > 20.0
CriticalPercent == 20
\* hs.Percentage > 10.0
HighPercent == 10
\* freq.Percentage > 80.0
HotLoopPercent == 80
\* FindHotspots(profile, 10)
DetectTopN == 10

\* DeepStackIssues with >= for > in the test of the depth
DeepStackIssuesAtLeast(stats) ==
  IF stats.MaxStackDepth >= DeepStackDepth
  THEN << [Severity |-> "High",
           Category |-> "Deep Call Stack",
           Description |-> [format |-> "Maximum stack depth of %d frames detected. This may indicate deep recursion or complex call chains.",
                            arg |-> stats.MaxStackDepth],
           Function |-> <<>>,
           Module |-> <<>>,
           Impact |-> Zero] >>
  ELSE <<>>

DeepStackIssues(stats) ==
  IF stats.MaxStackDepth > DeepStackDepth
  THEN << [Severity |-> "High",
           Category |-> "Deep Call Stack",
           Description |-> [format |-> "Maximum stack depth of %d frames detected. This may indicate deep recursion or complex call chains.",
                            arg |-> stats.MaxStackDepth],
           Function |-> <<>>,
           Module |-> <<>>,
           Impact |-> Zero] >>
  ELSE <<>>

CpuHotspotIssue(hs, severity) ==
  [Severity |-> severity,
   Category |-> "CPU Hotspot",
   Description |-> [format |-> "Function consumes %.2f%% of total execution time",
                    arg |-> hs.Percentage],
   Function |-> hs.Function,
   Module |-> hs.Module,
   Impact |-> hs.Percentage]

\* CpuHotspotIssues with >= for > in the test of the Critical threshold
RECURSIVE CpuHotspotIssuesAtLeast(_, _)
CpuHotspotIssuesAtLeast(hotspots, k) ==
  IF k > Len(hotspots) THEN <<>>
  ELSE (IF hotspots[k].Percentage.num >= CriticalPercent * hotspots[k].Percentage.den
        THEN <<CpuHotspotIssue(hotspots[k], "Critical")>>
        ELSE IF GtInt(hotspots[k].Percentage, HighPercent)
        THEN <<CpuHotspotIssue(hotspots[k], "High")>>
        ELSE <<>>)
       \o CpuHotspotIssuesAtLeast(hotspots, k + 1)

\* the loop over the hotspots: Critical above 20, else High above 10
RECURSIVE CpuHotspotIssues(_, _)
CpuHotspotIssues(hotspots, k) ==
  IF k > Len(hotspots) THEN <<>>
  ELSE (IF GtInt(hotspots[k].Percentage, CriticalPercent)
        THEN <<CpuHotspotIssue(hotspots[k], "Critical")>>
        ELSE IF GtInt(hotspots[k].Percentage, HighPercent)
        THEN <<CpuHotspotIssue(hotspots[k], "High")>>
        ELSE <<>>)
       \o CpuHotspotIssues(hotspots, k + 1)

HotLoopIssue(freq) ==
  [Severity |-> "Critical",
   Category |-> "Hot Loop",
   Description |-> [format |-> "Function appears in %.2f%% of all callstacks - likely in a hot loop",
                    arg |-> freq.Percentage],
   Function |-> freq.Function,
   Module |-> freq.Module,
   Impact |-> freq.Percentage]

\* HotLoopIssues with >= for > in the test of the threshold
RECURSIVE HotLoopIssuesAtLeast(_, _)
HotLoopIssuesAtLeast(frequencies, k) ==
  IF k > Len(frequencies) THEN <<>>
  ELSE (IF frequencies[k].Percentage.num >= HotLoopPercent * frequencies[k].Percentage.den
        THEN <<HotLoopIssue(frequencies[k])>>
        ELSE <<>>)
       \o HotLoopIssuesAtLeast(frequencies, k + 1)

\* the loop over the frequencies
RECURSIVE HotLoopIssues(_, _)
HotLoopIssues(frequencies, k) ==
  IF k > Len(frequencies) THEN <<>>
  ELSE (IF GtInt(frequencies[k].Percentage, HotLoopPercent)
        THEN <<HotLoopIssue(frequencies[k])>>
        ELSE <<>>)
       \o HotLoopIssues(frequencies, k + 1)

\* ByImpact with < for >: the smallest Impact first
ByImpactAscending(S) == [p \in S \X S |-> RatGt(p[2].Impact, p[1].Impact)]

\* issues[i].Impact > issues[j].Impact
ByImpact(S) == [p \in S \X S |-> RatGt(p[1].Impact, p[2].Impact)]

Range(s) == { s[k] : k \in 1..Len(s) }

\* every outcome of DetectPerformanceIssues(profile): the slice returned,
\* with the ranking the hotspot rule read
DetectPerformanceIssues(pd) ==
  UNION { UNION { LET issues == DeepStackIssues(ComputeStatistics(pd))
                                  \o CpuHotspotIssues(hotspots, 1)
                                  \o HotLoopIssues(frequencies, 1)
                  IN { [hotspots |-> hotspots, issues |-> sorted] :
                       sorted \in SortedOrders(Range(issues), ByImpact(Range(issues))) } :
                  frequencies \in GetFunctionCallFrequencies(pd) } :
          hotspots \in FindHotspots(pd, DetectTopN) }

(***************************************************************************)
(* The profiles of the model.  A profile is what ReadSleepyProfile returns *)
(* for a symbol table and a sample table: the symbols in line order, one   *)
(* Callstack per sample line whose ThreadCounts holds the duration under   *)
(* the 1-based number of the line, and the address index.                  *)
(***************************************************************************)
SeqsUpTo(S, n) == UNION { [1..k -> S] : k \in 0..n }

Sym(address, module, proc, file, line) ==
  [Address |-> address, ModuleName |-> module, ProcName |-> proc,
   FilePath |-> file, LineNumber |-> line]

\* 0x1 m f!g a.c 7
SymA == Sym(<<"0", "x", "1">>, <<"m">>, <<"f", "!", "g">>, <<"a", ".", "c">>, 7)
\* 0x1f m!f g b.c 9      (another pair, the same text module!function)
SymB == Sym(<<"0", "x", "1", "f">>, <<"m", "!", "f">>, <<"g">>, <<"b", ".", "c">>, 9)
\* 0x1F m f!g a.c 8      (the pair of SymA at the address of SymB)
SymC == Sym(<<"0", "x", "1", "F">>, <<"m">>, <<"f", "!", "g">>, <<"a", ".", "c">>, 8)
\* 1f n h c.c 3          (no 0x prefix: never indexed)
SymD == Sym(<<"1", "f">>, <<"n">>, <<"h">>, <<"c", ".", "c">>, 3)
\* 0x1 "" h c.c 4        (empty module)
SymE == Sym(<<"0", "x", "1">>, <<>>, <<"h">>, <<"c", ".", "c">>, 4)

SymbolTables ==
  { <<>>, <<SymA, SymB>>, <<SymA, SymC>>, <<SymB, SymC, SymD>>, <<SymE>> }

Sample(duration, addresses) == [duration |-> duration, addresses |-> addresses]

\* sample lines with varied stacks over the addresses 0x1 and 0x1f: no
\* address, one, two different ones, the same one twice; durations 0, 3, 17
Samples ==
  { Sample(0, <<>>), Sample(3, <<>>),
    Sample(3, <<1>>), Sample(17, <<1>>),
    Sample(3, <<31>>), Sample(17, <<31>>),
    Sample(3, <<1, 31>>), Sample(17, <<1, 1>>), Sample(0, <<31, 1>>) }

\* sample lines of one address
LongSamples ==
  { Sample(3, <<1>>), Sample(17, <<1>>), Sample(3, <<31>>), Sample(17, <<31>>) }

LongSymbolTables == { <<SymA>> }

EmptyStats == [Filename |-> <<>>, Duration |-> <<>>, Date |-> <<>>, NumSamples |-> 0]

ProfileOf(symbols, samples) ==
  [Stats |-> EmptyStats,
   Symbols |-> symbols,
   Callstacks |-> [k \in 1..Len(samples) |->
                     [Addresses |-> samples[k].addresses,
                      ThreadCounts |-> (k :> samples[k].duration)]],
   Threads |-> <<>>,
   symbolMap |-> buildSymbolMap(symbols)]

Profiles ==
  { ProfileOf(t, s) : t \in SymbolTables, s \in SeqsUpTo(Samples, MaxSamples) }
  \cup
  { ProfileOf(t, s) : t \in LongSymbolTables, s \in SeqsUpTo(LongSamples, MaxLongSamples) }

\* Profiles for the rules of DetectPerformanceIssues that the profiles above
\* do not reach: more functions than the ranking of the hotspot rule holds,
\* and stacks at and above the depth of the Deep Call Stack rule.
Repeat(a, n) == [k \in 1..n |-> a]

\* n samples, sample i with the stack 1, 2, .. i: function k is in the
\* samples k .. n, so the n functions have n different counts and times.
\* Every sample lasts 1 but the last, which lasts d.
NestedSamples(n, d) ==
  [i \in 1..n |-> Sample(IF i = n THEN d ELSE 1, [k \in 1..i |-> k])]

\* the share of the deepest function of NestedSamples(11, d) is
\* d / (10 + d): 9.09% for 1, 16.7% for 2, 28.6% for 4
NestedLastDurations == {1, 2, 4}

NestedProfiles ==
  { ProfileOf(t, NestedSamples(n, d)) :
      t \in { <<>>, <<SymA>> },
      n \in (DetectTopN - 1)..MaxNested,
      d \in NestedLastDurations }

\* one address 50 or 51 times (a recursion), the same under another address,
\* or another address once
DeepSamples ==
  { Sample(d, Repeat(1, n)) : d \in {0, 3}, n \in {DeepStackDepth, DeepStackDepth + 1} }
  \cup { Sample(3, <<31>> \o Repeat(1, DeepStackDepth)) }
  \cup { Sample(0, <<31>>), Sample(3, <<31>>) }

DeepProfiles ==
  NestedProfiles
  \cup { ProfileOf(t, s) : t \in { <<>>, <<SymA>> },
                           s \in SeqsUpTo(DeepSamples, MaxDeepSamples) }

TopNs == {-1, 0, 1, 2}

(***************************************************************************)
(* Text read from the archive: strings.TrimSpace, strings.Fields,          *)
(* strings.SplitN(line, ": ", 2), strconv.Atoi, strconv.ParseFloat.        *)
(* A member of the archive is the sequence of the lines bufio.Scanner      *)
(* delivers (without their line ends) and whether the read fails after     *)
(* them.  An error is a record of the format of its message, the text put  *)
(* into it and the error it wraps, if any.                                 *)
(***************************************************************************)
\* A pointer or an error is a sequence: empty for nil, else of the one
\* value it refers to.
Nil == <<>>

\* fmt.Errorf(format, ...): text is what %s or %q puts into the message,
\* cause the error %w wraps (Nil if none)
Error(format, text, cause) == <<[format |-> format, text |-> text, cause |-> cause]>>

\* the white space of the texts of the model
IsSpace(c) == c \in {" ", "\t"}

Least(S) == CHOOSE k \in S : \A j \in S : k <= j

Greatest(S) == CHOOSE k \in S : \A j \in S : j <= k

\* strings.TrimSpace
TrimSpace(s) ==
  LET inked == { k \in 1..Len(s) : ~IsSpace(s[k]) }
  IN IF inked = {} THEN <<>> ELSE SubSeq(s, Least(inked), Greatest(inked))

\* strings.Fields: the maximal runs of characters that are not white space
Fields(s) ==
  LET starts == { k \in 1..Len(s) : ~IsSpace(s[k]) /\ (k = 1 \/ IsSpace(s[k - 1])) }
      stop(k) == Least({ j \in k..Len(s) : j = Len(s) \/ IsSpace(s[j + 1]) })
      nth(n) == CHOOSE k \in starts : Cardinality({ j \in starts : j < k }) = n - 1
  IN [n \in 1..Cardinality(starts) |-> SubSeq(s, nth(n), stop(nth(n)))]

\* strings.SplitN(line, ": ", 2): the text before and after the first ": ",
\* the whole line when it has none
SplitN2(line) ==
  LET seps == { k \in 1..(Len(line) - 1) : line[k] = ":" /\ line[k + 1] = " " }
  IN IF seps = {} THEN <<line>>
     ELSE <<SubSeq(line, 1, Least(seps) - 1), SubSeq(line, Least(seps) + 2, Len(line))>>

\* value of one decimal digit, -1 for any other character
DigitValue(c) == IF HexDigitValue(c) \in 0..9 THEN HexDigitValue(c) ELSE -1

RECURSIVE ParseDigits(_, _, _)
ParseDigits(s, k, acc) ==
  IF k > Len(s) THEN [ok |-> TRUE, val |-> acc]
  ELSE IF DigitValue(s[k]) < 0 THEN [ok |-> FALSE, val |-> 0]
  ELSE ParseDigits(s, k + 1, acc * 10 + DigitValue(s[k]))

\* strconv.Atoi: an optional sign and one decimal digit or more.  The texts
\* of the model have at most four digits, so the range error never arises.
Atoi(s) ==
  LET signed == Len(s) > 0 /\ s[1] \in {"+", "-"}
      digits == IF signed THEN Tail(s) ELSE s
      parsed == IF Len(digits) = 0 THEN [ok |-> FALSE, val |-> 0]
                ELSE ParseDigits(digits, 1, 0)
  IN IF ~parsed.ok THEN [ok |-> FALSE, val |-> 0, err |-> Error("strconv.Atoi: parsing %q: invalid syntax", s, Nil)]
     ELSE [ok |-> TRUE,
           val |-> IF signed /\ s[1] = "-" THEN 0 - parsed.val ELSE parsed.val,
           err |-> Nil]

\* strconv.ParseFloat(s, 64) for the duration texts of the model, which are
\* decimal digits (a whole number of time units) or hold a character that
\* no number has
ParseFloat(s) ==
  LET parsed == IF Len(s) = 0 THEN [ok |-> FALSE, val |-> 0] ELSE ParseDigits(s, 1, 0)
  IN IF parsed.ok THEN [ok |-> TRUE, val |-> parsed.val, err |-> Nil]
     ELSE [ok |-> FALSE, val |-> 0,
           err |-> Error("strconv.ParseFloat: parsing %q: invalid syntax", s, Nil)]

\* scanner.Err() of a member whose read fails
ReadError == Error("read error", <<>>, Nil)

ScannerErr(readError) == IF readError THEN ReadError ELSE Nil

(***************************************************************************)
(* sleepy.parseStats                                                       *)
(***************************************************************************)
KeyFilename == <<"F", "i", "l", "e", "n", "a", "m", "e">>
KeyDuration == <<"D", "u", "r", "a", "t", "i", "o", "n">>
KeyDate == <<"D", "a", "t", "e">>
KeySamples == <<"S", "a", "m", "p", "l", "e", "s">>

\* the lines from i on; the result holds the Stats written so far and the
\* error returned
RECURSIVE parseStatsFrom(_, _, _, _)
parseStatsFrom(lines, i, readError, stats) ==
  IF i > Len(lines) THEN [stats |-> stats, err |-> ScannerErr(readError)]
  ELSE LET parts == SplitN2(lines[i])
       IN IF Len(parts) # 2 THEN parseStatsFrom(lines, i + 1, readError, stats)
          ELSE IF parts[1] = KeyFilename
          THEN parseStatsFrom(lines, i + 1, readError, [stats EXCEPT !.Filename = parts[2]])
          ELSE IF parts[1] = KeyDuration
          THEN parseStatsFrom(lines, i + 1, readError, [stats EXCEPT !.Duration = parts[2]])
          ELSE IF parts[1] = KeyDate
          THEN parseStatsFrom(lines, i + 1, readError, [stats EXCEPT !.Date = parts[2]])
          ELSE IF parts[1] = KeySamples
          THEN (IF Atoi(parts[2]).ok
                THEN parseStatsFrom(lines, i + 1, readError,
                                    [stats EXCEPT !.NumSamples = Atoi(parts[2]).val])
                ELSE [stats |-> stats,
                      err |-> Error("invalid Samples value: %w", <<>>, Atoi(parts[2]).err)])
          ELSE parseStatsFrom(lines, i + 1, readError, stats)

parseStats(lines, readError, stats) == parseStatsFrom(lines, 1, readError, stats)

(***************************************************************************)
(* sleepy.parseSymbols                                                     *)
(***************************************************************************)
Quote == "\""

\* QuotedFieldsFrom that ends the field at every space, quoted or not
RECURSIVE QuotedFieldsFromEverySpace(_, _, _, _, _)
QuotedFieldsFromEverySpace(line, k, fields, inQuote, currentField) ==
  IF k > Len(line) THEN Append(fields, currentField)
  ELSE IF line[k] = Quote
  THEN QuotedFieldsFromEverySpace(line, k + 1, fields, ~inQuote, currentField)
  ELSE IF line[k] = " "
  THEN QuotedFieldsFromEverySpace(line, k + 1, Append(fields, currentField), inQuote, <<>>)
  ELSE QuotedFieldsFromEverySpace(line, k + 1, fields, inQuote, Append(currentField, line[k]))

\* the loop over the runes of a line from k on: a quote flips inQuote and
\* is dropped, a space outside quotes ends the current field, any other
\* rune joins it; the last field is added after the loop
RECURSIVE QuotedFieldsFrom(_, _, _, _, _)
QuotedFieldsFrom(line, k, fields, inQuote, currentField) ==
  IF k > Len(line) THEN Append(fields, currentField)
  ELSE IF line[k] = Quote
  THEN QuotedFieldsFrom(line, k + 1, fields, ~inQuote, currentField)
  ELSE IF line[k] = " " /\ ~inQuote
  THEN QuotedFieldsFrom(line, k + 1, Append(fields, currentField), inQuote, <<>>)
  ELSE QuotedFieldsFrom(line, k + 1, fields, inQuote, Append(currentField, line[k]))

QuotedFields(line) == QuotedFieldsFrom(line, 1, <<>>, FALSE, <<>>)

\* parseSymbolsFrom that skips a line of fewer than five fields
RECURSIVE parseSymbolsFromSkipping(_, _, _, _)
parseSymbolsFromSkipping(lines, i, readError, symbols) ==
  IF i > Len(lines) THEN [symbols |-> symbols, err |-> ScannerErr(readError)]
  ELSE IF TrimSpace(lines[i]) = <<>> \/ Len(QuotedFields(lines[i])) < 5
  THEN parseSymbolsFromSkipping(lines, i + 1, readError, symbols)
  ELSE LET fields == QuotedFields(lines[i])
       IN IF ~Atoi(fields[5]).ok
          THEN [symbols |-> symbols,
                err |-> Error("invalid line number in Symbols.txt: %w (line: %s)",
                              lines[i], Atoi(fields[5]).err)]
          ELSE parseSymbolsFromSkipping(lines, i + 1, readError,
                 Append(symbols, Sym(fields[1], fields[2], fields[3], fields[4],
                                     Atoi(fields[5]).val)))

\* the lines from i on; the result holds the symbols appended so far and
\* the error returned
RECURSIVE parseSymbolsFrom(_, _, _, _)
parseSymbolsFrom(lines, i, readError, symbols) ==
  IF i > Len(lines) THEN [symbols |-> symbols, err |-> ScannerErr(readError)]
  ELSE IF TrimSpace(lines[i]) = <<>>
  THEN parseSymbolsFrom(lines, i + 1, readError, symbols)
  ELSE LET fields == QuotedFields(lines[i])
       IN IF Len(fields) < 5
          THEN [symbols |-> symbols,
                err |-> Error("malformed line in Symbols.txt: %s", lines[i], Nil)]
          ELSE IF ~Atoi(fields[5]).ok
          THEN [symbols |-> symbols,
                err |-> Error("invalid line number in Symbols.txt: %w (line: %s)",
                              lines[i], Atoi(fields[5]).err)]
          ELSE parseSymbolsFrom(lines, i + 1, readError,
                 Append(symbols, Sym(fields[1], fields[2], fields[3], fields[4],
                                     Atoi(fields[5]).val)))

parseSymbols(lines, readError, symbols) == parseSymbolsFrom(lines, 1, readError, symbols)

(***************************************************************************)
(* sleepy.parseCallstacks                                                  *)
(***************************************************************************)
\* the loop over the parts of a line from the second on
RECURSIVE parseAddressesFrom(_, _, _)
parseAddressesFrom(parts, i, addresses) ==
  IF i > Len(parts) THEN [addresses |-> addresses, err |-> Nil]
  ELSE IF ~HasPrefix(parts[i], <<"0", "x">>)
  THEN [addresses |-> Nil,
        err |-> Error("invalid address format %q (expected 0x prefix)", parts[i], Nil)]
  ELSE IF ~ParseUint16(TrimPrefix(parts[i], <<"0", "x">>)).ok
  THEN [addresses |-> Nil,
        err |-> Error("invalid address %q: %w", parts[i],
                      Error("strconv.ParseUint: parsing %q: invalid syntax",
                            TrimPrefix(parts[i], <<"0", "x">>), Nil))]
  ELSE parseAddressesFrom(parts, i + 1,
         Append(addresses, ParseUint16(TrimPrefix(parts[i], <<"0", "x">>)).val))

\* NextID that keeps the identifier
NextIDSame(callstackID) == callstackID

\* callstackID++
NextID(callstackID) == callstackID + 1

\* the lines from i on; callstackID is 1 for the first line that is not
\* blank and grows by one per sample
RECURSIVE parseCallstacksFrom(_, _, _, _, _)
parseCallstacksFrom(lines, i, readError, callstacks, callstackID) ==
  IF i > Len(lines)
  THEN (IF readError
        THEN [callstacks |-> Nil,
              err |-> Error("error reading Callstacks.txt: %w", <<>>, ReadError)]
        ELSE [callstacks |-> callstacks, err |-> Nil])
  ELSE LET line == TrimSpace(lines[i])
           parts == Fields(line)
       IN IF line = <<>>
          THEN parseCallstacksFrom(lines, i + 1, readError, callstacks, callstackID)
          ELSE IF Len(parts) < 1
          THEN [callstacks |-> Nil,
                err |-> Error("malformed Callstacks.txt line (no data): %q", line, Nil)]
          ELSE IF ~ParseFloat(parts[1]).ok
          THEN [callstacks |-> Nil,
                err |-> Error("invalid duration %q: %w", parts[1], ParseFloat(parts[1]).err)]
          ELSE IF parseAddressesFrom(parts, 2, <<>>).err # Nil
          THEN [callstacks |-> Nil, err |-> parseAddressesFrom(parts, 2, <<>>).err]
          ELSE parseCallstacksFrom(lines, i + 1, readError,
                 Append(callstacks,
                        [Addresses |-> parseAddressesFrom(parts, 2, <<>>).addresses,
                         ThreadCounts |-> (callstackID :> ParseFloat(parts[1]).val)]),
                 NextID(callstackID))

parseCallstacks(lines, readError) == parseCallstacksFrom(lines, 1, readError, Nil, 1)

(***************************************************************************)
(* sleepy.parseThreads                                                     *)
(***************************************************************************)
\* Thread{}
ZeroThread == [ID |-> 0, Name |-> <<>>]

\* the lines from i on; the result holds the threads appended so far and
\* the error returned
RECURSIVE parseThreadsFrom(_, _, _, _, _, _)
parseThreadsFrom(lines, i, readError, threads, currentThread, isIDLine) ==
  IF i > Len(lines) THEN [threads |-> threads, err |-> ScannerErr(readError)]
  ELSE IF TrimSpace(lines[i]) = <<>>
  THEN parseThreadsFrom(lines, i + 1, readError, threads, currentThread, isIDLine)
  ELSE IF isIDLine
  THEN (IF ~Atoi(lines[i]).ok
        THEN [threads |-> threads,
              err |-> Error("invalid thread ID in Threads.txt: %w", <<>>, Atoi(lines[i]).err)]
        ELSE parseThreadsFrom(lines, i + 1, readError, threads,
                              [currentThread EXCEPT !.ID = Atoi(lines[i]).val], FALSE))
  ELSE parseThreadsFrom(lines, i + 1, readError,
                        Append(threads, [currentThread EXCEPT !.Name = lines[i]]),
                        ZeroThread, TRUE)

parseThreads(lines, readError, threads) ==
  parseThreadsFrom(lines, 1, readError, threads, ZeroThread, TRUE)

(***************************************************************************)
(* sleepy.ReadSleepyProfile.  An archive is whether zip.OpenReader opens   *)
(* it and the sequence of its members; a member is its name (a text the    *)
(* code compares and copies whole, kept as a sequence of one string),      *)
(* whether file.Open opens it, its lines and whether its read fails.       *)
(***************************************************************************)
StatsTxt == <<"Stats.txt">>
SymbolsTxt == <<"Symbols.txt">>
CallstacksTxt == <<"Callstacks.txt">>
ThreadsTxt == <<"Threads.txt">>

\* the error of zip.OpenReader or file.Open
OpenError == Error("open error", <<>>, Nil)

\* &ProfileData{}
ZeroProfileData ==
  [Stats |-> EmptyStats, Symbols |-> Nil, Callstacks |-> Nil, Threads |-> Nil,
   symbolMap |-> <<>>]

\* the loop over reader.File from member i on, then buildSymbolMap
RECURSIVE ReadMembers(_, _, _)
ReadMembers(File, i, profileData) ==
  IF i > Len(File)
  THEN [profile |-> <<[profileData EXCEPT !.symbolMap = buildSymbolMap(profileData.Symbols)]>>,
        err |-> Nil]
  ELSE LET file == File[i]
       IN IF ~file.opens
          THEN [profile |-> Nil,
                err |-> Error("failed to open file %s in zip: %w", file.Name, OpenError)]
          ELSE IF file.Name = StatsTxt
          THEN (LET r == parseStats(file.lines, file.readError, profileData.Stats)
                IN IF r.err # Nil
                   THEN [profile |-> Nil,
                         err |-> Error("failed to parse Stats.txt: %w", <<>>, r.err)]
                   ELSE ReadMembers(File, i + 1, [profileData EXCEPT !.Stats = r.stats]))
          ELSE IF file.Name = SymbolsTxt
          THEN (LET r == parseSymbols(file.lines, file.readError, profileData.Symbols)
                IN IF r.err # Nil
                   THEN [profile |-> Nil,
                         err |-> Error("failed to parse Symbols.txt: %w", <<>>, r.err)]
                   ELSE ReadMembers(File, i + 1, [profileData EXCEPT !.Symbols = r.symbols]))
          ELSE IF file.Name = CallstacksTxt
          THEN (LET r == parseCallstacks(file.lines, file.readError)
                IN IF r.err # Nil
                   THEN [profile |-> Nil,
                         err |-> Error("failed to parse Callstacks.txt: %w", <<>>, r.err)]
                   ELSE ReadMembers(File, i + 1, [profileData EXCEPT !.Callstacks = r.callstacks]))
          ELSE IF file.Name = ThreadsTxt
          THEN (LET r == parseThreads(file.lines, file.readError, profileData.Threads)
                IN IF r.err # Nil
                   THEN [profile |-> Nil,
                         err |-> Error("failed to parse Threads.txt: %w", <<>>, r.err)]
                   ELSE ReadMembers(File, i + 1, [profileData EXCEPT !.Threads = r.threads]))
          ELSE ReadMembers(File, i + 1, profileData)

\* ReadSleepyProfile that hands out the empty ProfileData with the error
ReadSleepyProfilePartial(archive) ==
  IF ~archive.opens
  THEN [profile |-> Nil, err |-> Error("failed to open zip file: %w", <<>>, OpenError)]
  ELSE [profile |-> IF ReadMembers(archive.File, 1, ZeroProfileData).err # Nil
                    THEN <<ZeroProfileData>>
                    ELSE ReadMembers(archive.File, 1, ZeroProfileData).profile,
        err |-> ReadMembers(archive.File, 1, ZeroProfileData).err]

ReadSleepyProfile(archive) ==
  IF ~archive.opens
  THEN [profile |-> Nil, err |-> Error("failed to open zip file: %w", <<>>, OpenError)]
  ELSE ReadMembers(archive.File, 1, ZeroProfileData)

(***************************************************************************)
(* The texts of the model.                                                 *)
(***************************************************************************)
\* `0x1 m f a.c 7`
LineA == <<"0", "x", "1", " ", "m", " ", "f", " ", "a", ".", "c", " ", "7">>
\* `0x1 "a b" f a.c 7`
LineQuoted ==
  <<"0", "x", "1", " ", "\"", "a", " ", "b", "\"", " ", "f", " ", "a", ".",
    "c", " ", "7">>
\* `0x1f m g b.c 9`
LineB ==
  <<"0", "x", "1", "f", " ", "m", " ", "g", " ", "b", ".", "c", " ", "9">>
\* `0x1F m f a.c 8`: the address of LineB in capitals
LineUpper ==
  <<"0", "x", "1", "F", " ", "m", " ", "f", " ", "a", ".", "c", " ", "8">>
\* `1f n h c.c 3`: an address without 0x
LineNoPrefix == <<"1", "f", " ", "n", " ", "h", " ", "c", ".", "c", " ", "3">>
\* `0xg m f a.c 7`: an address that is not hexadecimal
LineNoHex ==
  <<"0", "x", "g", " ", "m", " ", "f", " ", "a", ".", "c", " ", "7">>
\* `0x1 m f a.c -3`
LineNegative ==
  <<"0", "x", "1", " ", "m", " ", "f", " ", "a", ".", "c", " ", "-", "3">>
\* `0x1 m f a.c`: four fields
LineFour == <<"0", "x", "1", " ", "m", " ", "f", " ", "a", ".", "c">>
\* `0x1 m f a.c x`: the fifth field is no integer
LineBadNumber ==
  <<"0", "x", "1", " ", "m", " ", "f", " ", "a", ".", "c", " ", "x">>
\* `0x1 m f a.c 7 z`: six fields, the fifth an integer, the last not
LineSixText ==
  <<"0", "x", "1", " ", "m", " ", "f", " ", "a", ".", "c", " ", "7", " ",
    "z">>
\* `0x1 m f a.c x 9`: six fields, the last an integer, the fifth not
LineSixNumber ==
  <<"0", "x", "1", " ", "m", " ", "f", " ", "a", ".", "c", " ", "x", " ",
    "9">>
\* `0x1  m f a.c 7`: two spaces after the address, an empty second field
LineTwoSpaces ==
  <<"0", "x", "1", " ", " ", "m", " ", "f", " ", "a", ".", "c", " ", "7">>
\* `0x1 "a b f a.c 7`: a quote that is never closed
LineOpenQuote ==
  <<"0", "x", "1", " ", "\"", "a", " ", "b", " ", "f", " ", "a", ".", "c",
    " ", "7">>
\* `0x1000 "My Module" "My Func" src/x.c 42`
LineExample ==
  <<"0", "x", "1", "0", "0", "0", " ", "\"", "M", "y", " ", "M", "o", "d",
    "u", "l", "e", "\"", " ", "\"", "M", "y", " ", "F", "u", "n", "c", "\"",
    " ", "s", "r", "c", "/", "x", ".", "c", " ", "4", "2">>
\* the empty line
LineEmpty == <<>>
\* a line of a space and a tab
LineBlank == <<" ", "\t">>

SymbolLines ==
  { LineA, LineQuoted, LineB, LineUpper,
    LineNoPrefix, LineNoHex, LineNegative, LineFour,
    LineBadNumber, LineSixText, LineSixNumber, LineTwoSpaces,
    LineOpenQuote, LineExample, LineEmpty, LineBlank }

\* every text of at most MaxLineLen characters over a letter, the space and
\* the quote
TokenLines == SeqsUpTo({"a", " ", Quote}, MaxLineLen) \cup SymbolLines

\* `1`
ThreadId1 == <<"1">>
\* `27`
ThreadId27 == <<"2", "7">>
\* `main`
ThreadName == <<"m", "a", "i", "n">>
\* ` 1`: an id after a space
ThreadIdPadded == <<" ", "1">>
\* `w 2`
ThreadNameTwo == <<"w", " ", "2">>

ThreadLines ==
  { ThreadId1, ThreadId27, ThreadName, ThreadIdPadded, ThreadNameTwo, LineEmpty, LineBlank }

\* `Samples: 5`
StatsSamples == <<"S", "a", "m", "p", "l", "e", "s", ":", " ", "5">>
\* `Duration: 1: 2`: a value that holds the separator
StatsDuration ==
  <<"D", "u", "r", "a", "t", "i", "o", "n", ":", " ", "1", ":", " ", "2">>
\* `Samples: x`
StatsBadSamples == <<"S", "a", "m", "p", "l", "e", "s", ":", " ", "x">>
\* `junk`
StatsNoKey == <<"j", "u", "n", "k">>
\* `3 0x1`
SampleA == <<"3", " ", "0", "x", "1">>
\* `17  0x1f 0x1`: two spaces after the duration
SampleB == <<"1", "7", " ", " ", "0", "x", "1", "f", " ", "0", "x", "1">>
\* `3 1f`
SampleNoPrefix == <<"3", " ", "1", "f">>
\* `x 0x1`
SampleBadDuration == <<"x", " ", "0", "x", "1">>
\* `5`: a duration and no address
SampleDurationOnly == <<"5">>
\* ` 3 0x1` and a tab
SamplePadded == <<" ", "3", " ", "0", "x", "1", "\t">>

SampleLines ==
  { SampleA, SampleB, SampleDurationOnly, SamplePadded, SampleNoPrefix,
    SampleBadDuration, LineEmpty, LineBlank }

Member(name, opens, lines, readError) ==
  [Name |-> name, opens |-> opens, lines |-> lines, readError |-> readError]

\* members that parse, members that do not (a bad Samples value, a line of
\* four fields after a good one, an address without 0x, a duration that is
\* no number, a name for an id), a member that cannot be opened, one whose
\* read fails, one of another name
GoodMembers ==
  { Member(StatsTxt, TRUE, <<StatsSamples, StatsDuration, StatsNoKey>>, FALSE),
    Member(SymbolsTxt, TRUE, <<LineA, LineB>>, FALSE),
    Member(SymbolsTxt, TRUE, <<LineUpper, LineNoPrefix>>, FALSE),
    Member(CallstacksTxt, TRUE, <<SampleA, LineBlank, SampleB>>, FALSE),
    Member(ThreadsTxt, TRUE, <<ThreadId1, ThreadName>>, FALSE),
    Member(ThreadsTxt, TRUE, <<ThreadId27, ThreadNameTwo, ThreadId1>>, FALSE),
    Member(<<"Other.txt">>, TRUE, <<StatsNoKey>>, FALSE) }

BadMembers ==
  { Member(StatsTxt, TRUE, <<StatsDuration, StatsBadSamples>>, FALSE),
    Member(SymbolsTxt, TRUE, <<LineA, LineFour>>, FALSE),
    Member(CallstacksTxt, TRUE, <<SampleA, SampleNoPrefix>>, FALSE),
    Member(CallstacksTxt, TRUE, <<SampleBadDuration>>, FALSE),
    Member(ThreadsTxt, TRUE, <<ThreadName>>, FALSE),
    Member(SymbolsTxt, FALSE, <<>>, FALSE),
    Member(CallstacksTxt, TRUE, <<SampleA>>, TRUE) }

Archives ==
  { [opens |-> FALSE, File |-> <<>>] }
  \cup { [opens |-> TRUE, File |-> File] :
           File \in SeqsUpTo(GoodMembers \cup BadMembers, MaxMembers) }

(***************************************************************************)
(* The state machine: a loaded profile and the analysis passes run on it.  *)
(* result is the last pass run, its arguments and what it returned.        *)
(***************************************************************************)
NoResult == [op |-> "none", args |-> <<>>, out |-> <<>>, hotspots |-> <<>>]

\* nothing to read
NoLoad == [op |-> "none", kind |-> "none", input |-> <<>>, out |-> <<>>]

\* no tool called yet
NoResponse ==
  [tool |-> "none",
   request |-> [file_path |-> Nil, top_n |-> Nil, callstack_index |-> Nil],
   isError |-> FALSE, message |-> "", data |-> <<>>]

Init ==
  /\ profile \in Profiles
  /\ result = NoResult
  /\ loaded = NoLoad
  /\ profileCache = <<>>
  /\ response = NoResponse
  /\ lastLoaded = <<>>

FindHotspotsCall ==
  /\ \E topN \in TopNs : \E out \in FindHotspots(profile, topN) :
       result' = [op |-> "FindHotspots", args |-> <<topN>>, out |-> out,
                  hotspots |-> <<>>]
  /\ UNCHANGED <<profile, loaded, profileCache, response, lastLoaded>>

FindBottomFunctionsCall ==
  /\ \E topN \in TopNs : \E out \in FindBottomFunctions(profile, topN) :
       result' = [op |-> "FindBottomFunctions", args |-> <<topN>>, out |-> out,
                  hotspots |-> <<>>]
  /\ UNCHANGED <<profile, loaded, profileCache, response, lastLoaded>>

FindModuleHotspotsCall ==
  /\ result' = [op |-> "FindModuleHotspots", args |-> <<>>,
                out |-> FindModuleHotspots(profile), hotspots |-> <<>>]
  /\ UNCHANGED <<profile, loaded, profileCache, response, lastLoaded>>

ComputeStatisticsCall ==
  /\ result' = [op |-> "ComputeStatistics", args |-> <<>>,
                out |-> ComputeStatistics(profile), hotspots |-> <<>>]
  /\ UNCHANGED <<profile, loaded, profileCache, response, lastLoaded>>

DetectPerformanceIssuesCall ==
  /\ \E r \in DetectPerformanceIssues(profile) :
       result' = [op |-> "DetectPerformanceIssues", args |-> <<>>,
                  out |-> r.issues, hotspots |-> r.hotspots]
  /\ UNCHANGED <<profile, loaded, profileCache, response, lastLoaded>>

\* ResolveCallstackCall that stores a symbol for every address it finds
\* without one
ResolveCallstackCallCaching ==
  /\ \E i \in 1..Len(profile.Callstacks) :
       /\ result' = [op |-> "ResolveCallstack", args |-> <<i>>,
                     out |-> ResolveCallstack(profile, profile.Callstacks[i]),
                     hotspots |-> <<>>]
       /\ profile' =
            [profile EXCEPT !.symbolMap =
               [a \in DOMAIN @ \cup Range(profile.Callstacks[i].Addresses) |->
                  IF a \in DOMAIN @ THEN @[a]
                  ELSE Sym(<<"0", "x">> \o FormatHex(a), UnresolvedModule,
                           Placeholder(a), <<>>, 0)]]
  /\ UNCHANGED <<loaded, profileCache, response, lastLoaded>>

ResolveCallstackCall ==
  /\ \E i \in 1..Len(profile.Callstacks) :
       result' = [op |-> "ResolveCallstack", args |-> <<i>>,
                  out |-> ResolveCallstack(profile, profile.Callstacks[i]),
                  hotspots |-> <<>>]
  /\ UNCHANGED <<profile, loaded, profileCache, response, lastLoaded>>

Next ==
  \/ FindHotspotsCall
  \/ FindBottomFunctionsCall
  \/ FindModuleHotspotsCall
  \/ ComputeStatisticsCall
  \/ DetectPerformanceIssuesCall
  \/ ResolveCallstackCall

Spec == Init /\ [][Next]_vars

\* the same passes on the profiles with many functions and deep stacks
InitDeep ==
  /\ profile \in DeepProfiles
  /\ result = NoResult
  /\ loaded = NoLoad
  /\ profileCache = <<>>
  /\ response = NoResponse
  /\ lastLoaded = <<>>

SpecDeep == InitDeep /\ [][Next]_vars

(***************************************************************************)
(* The reader.  loaded holds an input (an archive, the lines of a          *)
(* Symbols.txt or of a Threads.txt, or one line), drawn at the start, and, *)
(* once the operation for that kind of input has run, what it returned.    *)
(***************************************************************************)
Input(kind, input) == [op |-> "none", kind |-> kind, input |-> input, out |-> <<>>]

InitLoad ==
  /\ profile = ProfileOf(<<>>, <<>>)
  /\ result = NoResult
  /\ loaded \in { Input("archive", archive) : archive \in Archives }
                \cup { Input("symbols", lines) : lines \in SeqsUpTo(SymbolLines, MaxSymbolLines) }
                \cup { Input("threads", lines) : lines \in SeqsUpTo(ThreadLines, MaxThreadLines) }
                \cup { Input("line", line) : line \in TokenLines }
                \cup { Input("callstacks", lines) : lines \in SeqsUpTo(SampleLines, MaxSampleLines) }
  /\ profileCache = <<>>
  /\ response = NoResponse
  /\ lastLoaded = <<>>

ReadSleepyProfileCall ==
  /\ loaded.kind = "archive"
  /\ loaded' = [loaded EXCEPT !.op = "ReadSleepyProfile",
                              !.out = ReadSleepyProfile(loaded.input)]
  /\ UNCHANGED <<profile, result, profileCache, response, lastLoaded>>

parseSymbolsCall ==
  /\ loaded.kind = "symbols"
  /\ loaded' = [loaded EXCEPT !.op = "parseSymbols",
                              !.out = parseSymbols(loaded.input, FALSE, Nil)]
  /\ UNCHANGED <<profile, result, profileCache, response, lastLoaded>>

parseThreadsCall ==
  /\ loaded.kind = "threads"
  /\ loaded' = [loaded EXCEPT !.op = "parseThreads",
                              !.out = parseThreads(loaded.input, FALSE, Nil)]
  /\ UNCHANGED <<profile, result, profileCache, response, lastLoaded>>

parseCallstacksCall ==
  /\ loaded.kind = "callstacks"
  /\ loaded' = [loaded EXCEPT !.op = "parseCallstacks",
                              !.out = parseCallstacks(loaded.input, FALSE)]
  /\ UNCHANGED <<profile, result, profileCache, response, lastLoaded>>

\* the loop of parseSymbols that splits one line into fields
QuotedFieldsStep ==
  /\ loaded.kind = "line"
  /\ loaded' = [loaded EXCEPT !.op = "QuotedFields", !.out = QuotedFields(loaded.input)]
  /\ UNCHANGED <<profile, result, profileCache, response, lastLoaded>>

NextLoad ==
  \/ ReadSleepyProfileCall
  \/ parseSymbolsCall
  \/ parseThreadsCall
  \/ parseCallstacksCall
  \/ QuotedFieldsStep

SpecLoad == InitLoad /\ [][NextLoad]_vars

(***************************************************************************)
(* The handles of ReadSleepyProfile.  One call is followed statement by    *)
(* statement in loaded.out: pc is the statement it is at, i the member the *)
(* loop is at, open the handles that are open (0 for the zip.ReadCloser,   *)
(* k for the stream of member k), opened every handle the call has opened, *)
(* deferred the deferred Close calls in the order of their defer           *)
(* statements, profileData the ProfileData under construction and ret the  *)
(* values of the return statement reached.                                 *)
(***************************************************************************)
HeldArchives ==
  { [opens |-> FALSE, File |-> <<>>] }
  \cup { [opens |-> TRUE, File |-> File] :
           File \in SeqsUpTo(GoodMembers \cup BadMembers, MaxHeldMembers) }

\* the handle of the zip.ReadCloser
ReaderHandle == 0

\* Defer that forgets the Close calls deferred before
DeferAlone(deferred, handle) == <<handle>>

\* defer reader.Close(), defer rc.Close()
Defer(deferred, handle) == Append(deferred, handle)

InitRead ==
  /\ profile = ProfileOf(<<>>, <<>>)
  /\ result = NoResult
  /\ loaded \in { [op |-> "ReadSleepyProfile", kind |-> "statements", input |-> archive,
                    out |-> [pc |-> "OpenReader", i |-> 1, open |-> {}, opened |-> {},
                             deferred |-> <<>>, profileData |-> ZeroProfileData,
                             ret |-> [profile |-> Nil, err |-> Nil]]] :
                   archive \in HeldArchives }
  /\ profileCache = <<>>
  /\ response = NoResponse
  /\ lastLoaded = <<>>

\* reader, err := zip.OpenReader(filePath); defer reader.Close();
\* profileData := &ProfileData{}
zipOpenReader ==
  /\ loaded.out.pc = "OpenReader"
  /\ IF ~loaded.input.opens
     THEN loaded' = [loaded EXCEPT
            !.out.pc = "return",
            !.out.ret = [profile |-> Nil,
                         err |-> Error("failed to open zip file: %w", <<>>, OpenError)]]
     ELSE loaded' = [loaded EXCEPT
            !.out.pc = "for",
            !.out.open = @ \cup {ReaderHandle},
            !.out.opened = @ \cup {ReaderHandle},
            !.out.deferred = Defer(@, ReaderHandle)]
  /\ UNCHANGED <<profile, result, profileCache, response, lastLoaded>>

\* for _, file := range reader.File { rc, err := file.Open(); defer rc.Close()
fileOpen ==
  /\ loaded.out.pc = "for"
  /\ loaded.out.i <= Len(loaded.input.File)
  /\ IF ~loaded.input.File[loaded.out.i].opens
     THEN loaded' = [loaded EXCEPT
            !.out.pc = "return",
            !.out.ret = [profile |-> Nil,
                         err |-> Error("failed to open file %s in zip: %w",
                                       loaded.input.File[loaded.out.i].Name, OpenError)]]
     ELSE loaded' = [loaded EXCEPT
            !.out.pc = "switch",
            !.out.open = @ \cup {loaded.out.i},
            !.out.opened = @ \cup {loaded.out.i},
            !.out.deferred = Defer(@, loaded.out.i)]
  /\ UNCHANGED <<profile, result, profileCache, response, lastLoaded>>

\* switch file.Name: the parser of the member, on the stream just opened
switchFileName ==
  /\ loaded.out.pc = "switch"
  /\ LET read == ReadMembers(<<loaded.input.File[loaded.out.i]>>, 1, loaded.out.profileData)
     IN IF read.err # Nil
        THEN loaded' = [loaded EXCEPT !.out.pc = "return", !.out.ret = read]
        ELSE loaded' = [loaded EXCEPT
               !.out.pc = "for",
               !.out.i = @ + 1,
               !.out.profileData = [read.profile[1] EXCEPT !.symbolMap = <<>>]]
  /\ UNCHANGED <<profile, result, profileCache, response, lastLoaded>>

\* profileData.buildSymbolMap(); return profileData, nil
returnProfileData ==
  /\ loaded.out.pc = "for"
  /\ loaded.out.i > Len(loaded.input.File)
  /\ loaded' = [loaded EXCEPT
       !.out.pc = "return",
       !.out.ret = [profile |-> <<[loaded.out.profileData EXCEPT
                                     !.symbolMap = buildSymbolMap(loaded.out.profileData.Symbols)]>>,
                    err |-> Nil]]
  /\ UNCHANGED <<profile, result, profileCache, response, lastLoaded>>

\* one deferred Close runs, the last deferred first
deferredClose ==
  /\ loaded.out.pc = "return"
  /\ Len(loaded.out.deferred) > 0
  /\ loaded' = [loaded EXCEPT
       !.out.open = @ \ {loaded.out.deferred[Len(loaded.out.deferred)]},
       !.out.deferred = SubSeq(@, 1, Len(@) - 1)]
  /\ UNCHANGED <<profile, result, profileCache, response, lastLoaded>>

\* the call returns to its caller
returnToCaller ==
  /\ loaded.out.pc = "return"
  /\ Len(loaded.out.deferred) = 0
  /\ loaded' = [loaded EXCEPT !.out.pc = "returned"]
  /\ UNCHANGED <<profile, result, profileCache, response, lastLoaded>>

NextRead ==
  \/ zipOpenReader
  \/ fileOpen
  \/ switchFileName
  \/ returnProfileData
  \/ deferredClose
  \/ returnToCaller

SpecRead == InitRead /\ [][NextRead]_vars

(***************************************************************************)
(* The tools.  profileCache is the map of main.go from the path string of  *)
(* a load_profile call to the Profile it loaded; response is the result of *)
(* the last tool call: the tool, the arguments of the request (each Nil if *)
(* absent), whether it is an error result, its message and the values the  *)
(* text is formatted from (the layout of the text is not modelled).        *)
(* lastLoaded is a history variable: for every path the Profile that the   *)
(* most recent successful load_profile of that path read.                  *)
(***************************************************************************)
\* two path strings (of one file)
Paths == {"a.sleepy", "./a.sleepy"}

OptionalPaths == {Nil} \cup { <<path>> : path \in Paths }

\* what the file at the path holds when load_profile reads it: one of two
\* archives that load, one whose Callstacks.txt does not parse, or nothing
\* that zip.OpenReader opens
ToolArchives ==
  { [opens |-> TRUE,
     File |-> << Member(SymbolsTxt, TRUE, <<LineA>>, FALSE),
                 Member(CallstacksTxt, TRUE, <<SampleA, SampleB>>, FALSE) >>],
    [opens |-> TRUE,
     File |-> << Member(CallstacksTxt, TRUE, <<SampleB>>, FALSE) >>],
    [opens |-> TRUE,
     File |-> << Member(SymbolsTxt, TRUE, <<LineA>>, FALSE) >>],
    [opens |-> TRUE,
     File |-> << Member(CallstacksTxt, TRUE, <<SampleNoPrefix>>, FALSE) >>],
    [opens |-> FALSE, File |-> <<>>] }

Request(file_path, top_n, callstack_index) ==
  [file_path |-> file_path, top_n |-> top_n, callstack_index |-> callstack_index]

\* mcp.NewToolResultError
ErrorResult(tool, request, message, data) ==
  [tool |-> tool, request |-> request, isError |-> TRUE, message |-> message,
   data |-> data]

\* mcp.NewToolResultText
TextResult(tool, request, data) ==
  [tool |-> tool, request |-> request, isError |-> FALSE, message |-> "", data |-> data]

\* the error of RequireString and RequireFloat for an absent argument
MissingArgument == "required argument not found"

NotLoaded == "Profile not loaded. Use load_profile tool first"

\* topN := 10; if n := request.GetFloat("top_n", 10.0); n != 10.0 { topN = int(n) }
DefaultTopN == 10

TopNOf(request) ==
  IF request.top_n = Nil \/ request.top_n[1] = DefaultTopN THEN DefaultTopN
  ELSE request.top_n[1]

\* StoreProfile that makes a new map of the one entry
StoreProfileAlone(cache, filePath, pd) == (filePath :> pd)

\* StoreProfile that keeps the Profile a path already has
StoreProfileKeepFirst(cache, filePath, pd) == cache @@ (filePath :> pd)

\* profileCache[filePath] = profile
StoreProfile(cache, filePath, pd) == (filePath :> pd) @@ cache

InitTools ==
  /\ profile = ProfileOf(<<>>, <<>>)
  /\ result = NoResult
  /\ loaded = NoLoad
  /\ profileCache = <<>>
  /\ response = NoResponse
  /\ lastLoaded = <<>>

loadProfileTool ==
  /\ \E file_path \in OptionalPaths : \E archive \in ToolArchives :
       LET request == Request(file_path, Nil, Nil)
           read == ReadSleepyProfile(archive)
       IN IF file_path = Nil
          THEN /\ response' = ErrorResult("load_profile", request, MissingArgument, <<>>)
               /\ UNCHANGED <<profileCache, lastLoaded>>
          ELSE IF read.err # Nil
          THEN /\ response' = ErrorResult("load_profile", request,
                                          "Failed to load profile: %v", read.err)
               /\ UNCHANGED <<profileCache, lastLoaded>>
          ELSE /\ profileCache' = StoreProfile(profileCache, file_path[1], read.profile[1])
               /\ lastLoaded' =
                    [path \in DOMAIN lastLoaded \cup {file_path[1]} |->
                       IF path = file_path[1] THEN read.profile[1] ELSE lastLoaded[path]]
               /\ response' =
                    TextResult("load_profile", request,
                      [File |-> file_path[1],
                       Duration |-> read.profile[1].Stats.Duration,
                       Date |-> read.profile[1].Stats.Date,
                       Samples |-> read.profile[1].Stats.NumSamples,
                       Callstacks |-> Len(read.profile[1].Callstacks),
                       Symbols |-> Len(read.profile[1].Symbols),
                       Threads |-> Len(read.profile[1].Threads)])
  /\ UNCHANGED <<profile, result, loaded>>

findHotspotsTool ==
  /\ \E file_path \in OptionalPaths : \E top_n \in {Nil, <<1>>} :
       LET request == Request(file_path, top_n, Nil)
       IN IF file_path = Nil
          THEN response' = ErrorResult("find_hotspots", request, MissingArgument, <<>>)
          ELSE IF file_path[1] \notin DOMAIN profileCache
          THEN response' = ErrorResult("find_hotspots", request, NotLoaded, <<>>)
          ELSE \E hotspots \in FindHotspots(profileCache[file_path[1]], TopNOf(request)) :
                 response' = TextResult("find_hotspots", request, hotspots)
  /\ UNCHANGED <<profile, result, loaded, profileCache, lastLoaded>>

findBottomFunctionsTool ==
  /\ \E file_path \in OptionalPaths : \E top_n \in {Nil, <<1>>} :
       LET request == Request(file_path, top_n, Nil)
       IN IF file_path = Nil
          THEN response' = ErrorResult("find_bottom_functions", request, MissingArgument, <<>>)
          ELSE IF file_path[1] \notin DOMAIN profileCache
          THEN response' = ErrorResult("find_bottom_functions", request, NotLoaded, <<>>)
          ELSE \E bottomFuncs \in FindBottomFunctions(profileCache[file_path[1]],
                                                       TopNOf(request)) :
                 response' = TextResult("find_bottom_functions", request, bottomFuncs)
  /\ UNCHANGED <<profile, result, loaded, profileCache, lastLoaded>>

analyzeModulesTool ==
  /\ \E file_path \in OptionalPaths :
       LET request == Request(file_path, Nil, Nil)
       IN IF file_path = Nil
          THEN response' = ErrorResult("analyze_modules", request, MissingArgument, <<>>)
          ELSE IF file_path[1] \notin DOMAIN profileCache
          THEN response' = ErrorResult("analyze_modules", request, NotLoaded, <<>>)
          ELSE response' = TextResult("analyze_modules", request,
                                      FindModuleHotspots(profileCache[file_path[1]]))
  /\ UNCHANGED <<profile, result, loaded, profileCache, lastLoaded>>

detectIssuesTool ==
  /\ \E file_path \in OptionalPaths :
       LET request == Request(file_path, Nil, Nil)
       IN IF file_path = Nil
          THEN response' = ErrorResult("detect_performance_issues", request,
                                      MissingArgument, <<>>)
          ELSE IF file_path[1] \notin DOMAIN profileCache
          THEN response' = ErrorResult("detect_performance_issues", request, NotLoaded, <<>>)
          ELSE \E r \in DetectPerformanceIssues(profileCache[file_path[1]]) :
                 response' = TextResult("detect_performance_issues", request, r.issues)
  /\ UNCHANGED <<profile, result, loaded, profileCache, lastLoaded>>

getStatisticsTool ==
  /\ \E file_path \in OptionalPaths :
       LET request == Request(file_path, Nil, Nil)
       IN IF file_path = Nil
          THEN response' = ErrorResult("get_statistics", request, MissingArgument, <<>>)
          ELSE IF file_path[1] \notin DOMAIN profileCache
          THEN response' = ErrorResult("get_statistics", request, NotLoaded, <<>>)
          ELSE response' = TextResult("get_statistics", request,
                                      ComputeStatistics(profileCache[file_path[1]]))
  /\ UNCHANGED <<profile, result, loaded, profileCache, lastLoaded>>

\* the callstack_index arguments of the model: absent, whole numbers and
\* the float64 values -1/2, 1/2 and 5/2
MaxIndex == 3

CallstackIndexes ==
  {Nil} \cup { <<[num |-> k, den |-> 1]>> : k \in 0..MaxIndex }
        \cup { <<[num |-> k, den |-> 2]>> : k \in {-1, 1, 5} }

\* int(x) of a float64: the fraction is dropped, towards zero
IntOf(x) == IF x.num >= 0 THEN x.num \div x.den ELSE 0 - ((0 - x.num) \div x.den)

\* IndexOf that takes the argument as the position itself
IndexOfZeroBased(csIdx) == IntOf(csIdx)

\* index := int(csIdx) - 1
IndexOf(csIdx) == IntOf(csIdx) - 1

InvalidIndex == "Invalid callstack index. Valid range: 1-%d"

viewCallstackTool ==
  /\ \E file_path \in OptionalPaths : \E callstack_index \in CallstackIndexes :
       LET request == Request(file_path, Nil, callstack_index)
       IN IF file_path = Nil \/ callstack_index = Nil
          THEN response' = ErrorResult("view_callstack", request, MissingArgument, <<>>)
          ELSE IF file_path[1] \notin DOMAIN profileCache
          THEN response' = ErrorResult("view_callstack", request, NotLoaded, <<>>)
          ELSE LET pd == profileCache[file_path[1]]
                   index == IndexOf(callstack_index[1])
               IN IF index < 0 \/ index >= Len(pd.Callstacks)
                  THEN response' = ErrorResult("view_callstack", request, InvalidIndex,
                                               Len(pd.Callstacks))
                  ELSE response' = TextResult("view_callstack", request,
                                     [Duration |-> GetDuration(pd.Callstacks[index + 1]),
                                      frames |-> ResolveCallstack(pd, pd.Callstacks[index + 1])])
  /\ UNCHANGED <<profile, result, loaded, profileCache, lastLoaded>>

NextTools ==
  \/ loadProfileTool
  \/ findHotspotsTool
  \/ findBottomFunctionsTool
  \/ analyzeModulesTool
  \/ detectIssuesTool
  \/ getStatisticsTool
  \/ viewCallstackTool

SpecTools == InitTools /\ [][NextTools]_vars

(***************************************************************************)
(* Vocabulary of the properties, computed from the profile alone.          *)
(***************************************************************************)
NumSamples == Len(profile.Callstacks)

FramesOf(i) == ResolveCallstack(profile, profile.Callstacks[i])

DurationOf(i) == GetDuration(profile.Callstacks[i])

\* the function keys (the text module!function) in the stack of sample i
SigsOf(i) == { funcSig(FramesOf(i)[k]) : k \in 1..Len(FramesOf(i)) }

\* the (module, function) pairs in the stack of sample i
PairsOf(i) == { <<FramesOf(i)[k].Module, FramesOf(i)[k].Function>> : k \in 1..Len(FramesOf(i)) }

AllSigs == UNION { SigsOf(i) : i \in 1..NumSamples }

AllPairs == UNION { PairsOf(i) : i \in 1..NumSamples }

RECURSIVE SumOver(_, _)
SumOver(I, f) ==
  IF I = {} THEN 0
  ELSE LET i == CHOOSE j \in I : TRUE IN f[i] + SumOver(I \ {i}, f)

\* the sum of the durations of the samples in I
TimeOf(I) == SumOver(I, [i \in I |-> DurationOf(i)])

TotalDuration == TimeOf(1..NumSamples)

SamplesWithSig(sig) == { i \in 1..NumSamples : sig \in SigsOf(i) }

SamplesWithPair(pair) == { i \in 1..NumSamples : pair \in PairsOf(i) }

\* the sum of the percentages of a ranking, as num / den
RECURSIVE SumPercentages(_, _)
SumPercentages(out, k) ==
  IF k > Len(out) THEN Zero
  ELSE LET rest == SumPercentages(out, k + 1)
           p == out[k].Percentage
       IN [num |-> p.num * rest.den + rest.num * p.den, den |-> p.den * rest.den]

\* p = q for two quotients
RatEq(p, q) == p.num * q.den = q.num * p.den

IsFullRanking == result.op = "FindHotspots" /\ result.args[1] <= 0

(***************************************************************************)
(* C1.  As stated: for a profile with at least one sample the percentages  *)
(* of the full list of FindHotspots sum to at most 100, and to exactly 100 *)
(* when every address of every sample resolves and the total duration is   *)
(* positive.                                                               *)
(***************************************************************************)
C1_SumAtMost100 ==
  (IsFullRanking /\ NumSamples >= 1) =>
    LET sum == SumPercentages(result.out, 1)
    IN /\ sum.num <= 100 * sum.den
       /\ ( /\ TotalDuration > 0
            /\ \A i \in 1..NumSamples : \A k \in 1..Len(profile.Callstacks[i].Addresses) :
                 profile.Callstacks[i].Addresses[k] \in DOMAIN profile.symbolMap )
          => sum.num = 100 * sum.den

(***************************************************************************)
(* C1 as amended: for a profile with at least one sample every percentage  *)
(* of the full list lies between 0 and 100; the percentages sum to at most *)
(* 100 when no sample's stack holds two different functions, and to        *)
(* exactly 100 when every sample's stack holds exactly one function and    *)
(* the total duration is positive.                                         *)
(***************************************************************************)
C1_PercentagesBounded ==
  (IsFullRanking /\ NumSamples >= 1) =>
    LET sum == SumPercentages(result.out, 1)
    IN /\ \A k \in 1..Len(result.out) :
            /\ result.out[k].Percentage.den > 0
            /\ result.out[k].Percentage.num >= 0
            /\ result.out[k].Percentage.num <= 100 * result.out[k].Percentage.den
       /\ (\A i \in 1..NumSamples : Cardinality(SigsOf(i)) <= 1)
            => sum.num <= 100 * sum.den
       /\ (TotalDuration > 0 /\ \A i \in 1..NumSamples : Cardinality(SigsOf(i)) = 1)
            => sum.num = 100 * sum.den

\* a full ranking of two functions, one per sample, that sums to 100
C1_Witness ==
  /\ IsFullRanking
  /\ NumSamples >= 2
  /\ TotalDuration > 0
  /\ \A i \in 1..NumSamples : Cardinality(SigsOf(i)) = 1
  /\ Len(result.out) = 2
  /\ result.out[1].Percentage.num > 0
  /\ result.out[2].Percentage.num > 0

(***************************************************************************)
(* C2.  In the result of FindHotspots every (module, function) pair that   *)
(* occurs in a stack has one entry, whose SampleCount is the number of     *)
(* samples whose stack contains the pair and whose TotalTime is the sum of *)
(* the durations of those samples.                                         *)
(***************************************************************************)
C2_PerPairAccounting ==
  IsFullRanking =>
    /\ \A k \in 1..Len(result.out) :
         LET with == SamplesWithPair(<<result.out[k].Module, result.out[k].Function>>)
         IN /\ result.out[k].SampleCount = Cardinality(with)
            /\ result.out[k].TotalTime = TimeOf(with)
    /\ \A pair \in AllPairs : \E k \in 1..Len(result.out) :
         <<result.out[k].Module, result.out[k].Function>> = pair

(***************************************************************************)
(* C3.  FindHotspots returns its entries in non-increasing order of        *)
(* TotalTime; when 0 < topN < number of functions it returns exactly topN  *)
(* entries and no omitted function has a greater TotalTime than a returned *)
(* one; otherwise it returns every function.  A function is a key          *)
(* module!function of the ranking.                                         *)
(***************************************************************************)
C3_SortedAndTruncated ==
  result.op = "FindHotspots" =>
    LET out == result.out
        topN == result.args[1]
        returned == { funcSig(out[k]) : k \in 1..Len(out) }
    IN /\ \A k \in 1..(Len(out) - 1) : out[k].TotalTime >= out[k + 1].TotalTime
       /\ returned \subseteq AllSigs
       /\ Cardinality(returned) = Len(out)
       /\ IF topN > 0 /\ topN < Cardinality(AllSigs)
          THEN /\ Len(out) = topN
               /\ \A sig \in AllSigs \ returned : \A k \in 1..Len(out) :
                    TimeOf(SamplesWithSig(sig)) <= out[k].TotalTime
          ELSE returned = AllSigs

\* a ranking cut to one entry that leaves out a function of less time
C3_Witness ==
  /\ result.op = "FindHotspots"
  /\ result.args[1] = 1
  /\ Cardinality(AllSigs) = 2
  /\ Len(result.out) = 1
  /\ \E sig \in AllSigs : TimeOf(SamplesWithSig(sig)) < result.out[1].TotalTime

(***************************************************************************)
(* C4.  Running an analysis pass again on the same profile with the same   *)
(* parameters returns the same output, in the same order.                  *)
(***************************************************************************)
C4_Deterministic ==
  [][ (result.op # "none" /\ result'.op = result.op /\ result'.args = result.args)
        => result'.out = result.out ]_vars

(***************************************************************************)
(* C5.  ResolveCallstack returns as many frames as the sample has raw      *)
(* addresses, none for a sample without addresses, and frame i carries raw *)
(* address i.                                                              *)
(***************************************************************************)
C5_OneFramePerAddress ==
  result.op = "ResolveCallstack" =>
    LET addresses == profile.Callstacks[result.args[1]].Addresses
    IN /\ Len(result.out) = Len(addresses)
       /\ \A k \in 1..Len(addresses) : result.out[k].Address = addresses[k]

\* a resolved stack of two different addresses
C5_Witness ==
  /\ result.op = "ResolveCallstack"
  /\ Len(result.out) = 2
  /\ result.out[1].Address # result.out[2].Address

(***************************************************************************)
(* C6.  ResolveCallstack gives an address of the index the module,         *)
(* function, source file and line of the indexed symbol, and any other     *)
(* address the module "?", a function "[0x" hexadecimal digits "]" whose   *)
(* digits read back as the address, an empty source file and line 0; each  *)
(* frame depends on its own address only.                                  *)
(***************************************************************************)
C6_FrameOfAddress ==
  result.op = "ResolveCallstack" =>
    \A k \in 1..Len(result.out) :
      LET frame == result.out[k]
          addr == profile.Callstacks[result.args[1]].Addresses[k]
      IN IF addr \in DOMAIN profile.symbolMap
         THEN /\ frame.Module = profile.symbolMap[addr].ModuleName
              /\ frame.Function = profile.symbolMap[addr].ProcName
              /\ frame.SourceFile = profile.symbolMap[addr].FilePath
              /\ frame.LineNumber = profile.symbolMap[addr].LineNumber
         ELSE /\ frame.Module = <<"?">>
              /\ Len(frame.Function) >= 5
              /\ SubSeq(frame.Function, 1, 3) = <<"[", "0", "x">>
              /\ frame.Function[Len(frame.Function)] = "]"
              /\ LET digits == ParseUint16(SubSeq(frame.Function, 4, Len(frame.Function) - 1))
                 IN digits.ok /\ digits.val = addr
              /\ frame.SourceFile = <<>>
              /\ frame.LineNumber = 0

\* a stack whose first address resolves and whose second, 0x1f, does not
C6_Witness ==
  /\ result.op = "ResolveCallstack"
  /\ Len(result.out) = 2
  /\ result.out[1].Address \in DOMAIN profile.symbolMap
  /\ result.out[2].Address = 31
  /\ result.out[2].Address \notin DOMAIN profile.symbolMap

(***************************************************************************)
(* C7.  As stated: ComputeStatistics on a profile without samples returns  *)
(* a record in which every field is zero, whatever the symbol list holds.  *)
(***************************************************************************)
C7_AllZero ==
  (result.op = "ComputeStatistics" /\ NumSamples = 0) =>
    /\ result.out.TotalTime = 0
    /\ result.out.TotalCallstacks = 0
    /\ result.out.TotalSymbols = 0
    /\ result.out.AverageStackDepth = Zero
    /\ result.out.MaxStackDepth = 0
    /\ result.out.MinStackDepth = 0
    /\ result.out.UniqueModules = 0
    /\ result.out.UniqueFunctions = 0

(***************************************************************************)
(* C7 as amended: ComputeStatistics on a profile without samples returns a *)
(* record in which the symbol count is the length of the symbol list and   *)
(* every other field is zero.                                              *)
(***************************************************************************)
C7_ZeroButSymbols ==
  (result.op = "ComputeStatistics" /\ NumSamples = 0) =>
    /\ result.out.TotalTime = 0
    /\ result.out.TotalCallstacks = 0
    /\ result.out.TotalSymbols = Len(profile.Symbols)
    /\ result.out.AverageStackDepth = Zero
    /\ result.out.MaxStackDepth = 0
    /\ result.out.MinStackDepth = 0
    /\ result.out.UniqueModules = 0
    /\ result.out.UniqueFunctions = 0

\* statistics of a profile with symbols and no sample
C7_Witness ==
  /\ result.op = "ComputeStatistics"
  /\ NumSamples = 0
  /\ Len(profile.Symbols) > 0

(***************************************************************************)
(* Hot Loop and CPU Hotspot issues of the last DetectPerformanceIssues.    *)
(***************************************************************************)
IsIssues == result.op = "DetectPerformanceIssues"

HotLoopsOfSig(sig) ==
  { k \in 1..Len(result.out) :
      result.out[k].Category = "Hot Loop" /\ funcSig(result.out[k]) = sig }

HotLoopsOfPair(pair) ==
  { k \in 1..Len(result.out) :
      /\ result.out[k].Category = "Hot Loop"
      /\ <<result.out[k].Module, result.out[k].Function>> = pair }

CpuHotspotsOfPair(pair, severity) ==
  { k \in 1..Len(result.out) :
      /\ result.out[k].Category = "CPU Hotspot"
      /\ result.out[k].Severity = severity
      /\ <<result.out[k].Module, result.out[k].Function>> = pair }

(***************************************************************************)
(* C8.  As stated: DetectPerformanceIssues reports a Hot Loop issue for a  *)
(* function whose samples total 85% of all sample durations and none for a *)
(* function whose samples total exactly 80% of them.                       *)
(***************************************************************************)
C8_HotLoopByDuration ==
  IsIssues =>
    \A sig \in AllSigs :
      LET time == TimeOf(SamplesWithSig(sig))
      IN /\ (TotalDuration > 0 /\ time * 100 = 85 * TotalDuration)
              => HotLoopsOfSig(sig) # {}
         /\ (TotalDuration > 0 /\ time * 100 = 80 * TotalDuration)
              => HotLoopsOfSig(sig) = {}

(***************************************************************************)
(* C8 as amended: DetectPerformanceIssues reports a Hot Loop issue for a   *)
(* function exactly when the number of samples that contain it is more     *)
(* than 80% of the number of samples, none at exactly 80%, whatever the    *)
(* durations of the samples are.                                           *)
(***************************************************************************)
C8_HotLoopByPresence ==
  IsIssues =>
    \A sig \in AllSigs :
      (HotLoopsOfSig(sig) # {})
        <=> (Cardinality(SamplesWithSig(sig)) * 100 > 80 * NumSamples)

\* a function in 4 of 5 samples, which hold 85% or more of the time: no issue
C8_Witness ==
  /\ IsIssues
  /\ NumSamples = 5
  /\ \E sig \in AllSigs :
       /\ Cardinality(SamplesWithSig(sig)) = 4
       /\ TimeOf(SamplesWithSig(sig)) * 100 > 85 * TotalDuration
       /\ HotLoopsOfSig(sig) = {}

(***************************************************************************)
(* C9.  DetectPerformanceIssues emits exactly one Critical Hot Loop issue  *)
(* for every (module, function) present in more than 80% of the samples,   *)
(* with Impact equal to that share of the samples, and none for a pair     *)
(* present in 80% or fewer; a sample counts once however often the pair    *)
(* occurs in its stack.                                                    *)
(***************************************************************************)
C9_HotLoopPerPair ==
  IsIssues =>
    \A pair \in AllPairs :
      LET present == Cardinality(SamplesWithPair(pair))
      IN IF present * 100 > 80 * NumSamples
         THEN /\ Cardinality(HotLoopsOfPair(pair)) = 1
              /\ \A k \in HotLoopsOfPair(pair) :
                   /\ result.out[k].Severity = "Critical"
                   /\ RatEq(result.out[k].Impact, Percent(present, NumSamples))
         ELSE HotLoopsOfPair(pair) = {}

(***************************************************************************)
(* C10.  For every function of the top-10 ranking DetectPerformanceIssues  *)
(* emits a Critical CPU Hotspot issue iff its share of the total time is   *)
(* above 20%, a High one iff it is above 10% and at most 20%, and no       *)
(* (module, function) has more than one CPU Hotspot issue.                 *)
(***************************************************************************)
C10_CpuHotspotRule ==
  IsIssues =>
    /\ \A k \in 1..Len(result.hotspots) :
         LET hs == result.hotspots[k]
             pair == <<hs.Module, hs.Function>>
             time == TimeOf(SamplesWithSig(funcSig(hs)))
             above20 == TotalDuration > 0 /\ time * 100 > 20 * TotalDuration
             above10 == TotalDuration > 0 /\ time * 100 > 10 * TotalDuration
         IN /\ (CpuHotspotsOfPair(pair, "Critical") # {}) <=> above20
            /\ (CpuHotspotsOfPair(pair, "High") # {}) <=> (above10 /\ ~above20)
    /\ \A k \in 1..Len(result.out) : \A j \in 1..Len(result.out) :
         ( /\ result.out[k].Category = "CPU Hotspot"
           /\ result.out[j].Category = "CPU Hotspot"
           /\ result.out[k].Module = result.out[j].Module
           /\ result.out[k].Function = result.out[j].Function ) => k = j

\* one function at exactly 20% with a High issue, another with a Critical one
C10_Witness ==
  /\ IsIssues
  /\ \E k \in 1..Len(result.out) : \E j \in 1..Len(result.out) :
       /\ result.out[k].Category = "CPU Hotspot"
       /\ result.out[k].Severity = "High"
       /\ result.out[k].Impact.num = 20 * result.out[k].Impact.den
       /\ result.out[j].Category = "CPU Hotspot"
       /\ result.out[j].Severity = "Critical"

(***************************************************************************)
(* C11.  DetectPerformanceIssues reports a Critical CPU Hotspot issue for  *)
(* every (module, function) whose samples hold more than 20% of the total  *)
(* time and a Critical or High one for every (module, function) whose      *)
(* samples hold more than 10% of it, however many functions of the profile *)
(* are above those shares.                                                 *)
(***************************************************************************)
C11_AllAboveThresholdReported ==
  IsIssues =>
    \A pair \in AllPairs :
      LET time == TimeOf(SamplesWithPair(pair))
      IN /\ (TotalDuration > 0 /\ time * 100 > CriticalPercent * TotalDuration)
              => CpuHotspotsOfPair(pair, "Critical") # {}
         /\ (TotalDuration > 0 /\ time * 100 > HighPercent * TotalDuration)
              => CpuHotspotsOfPair(pair, "Critical") \cup CpuHotspotsOfPair(pair, "High") # {}

(***************************************************************************)
(* C12.  DetectPerformanceIssues emits exactly one Deep Call Stack issue,  *)
(* of severity High, with empty function and module and Impact 0, when the *)
(* largest number of raw addresses of a sample is above 50, and none when  *)
(* it is 50 or less, whatever the other rules emit.                        *)
(***************************************************************************)
\* the largest number of raw addresses of a sample, 0 without samples
MaxRawDepth ==
  IF NumSamples = 0 THEN 0
  ELSE CHOOSE d \in { Len(profile.Callstacks[i].Addresses) : i \in 1..NumSamples } :
         \A i \in 1..NumSamples : Len(profile.Callstacks[i].Addresses) <= d

DeepStacksOfResult ==
  { k \in 1..Len(result.out) : result.out[k].Category = "Deep Call Stack" }

C12_DeepStackRule ==
  IsIssues =>
    IF MaxRawDepth > 50
    THEN /\ Cardinality(DeepStacksOfResult) = 1
         /\ \A k \in DeepStacksOfResult :
              /\ result.out[k].Severity = "High"
              /\ result.out[k].Function = <<>>
              /\ result.out[k].Module = <<>>
              /\ result.out[k].Impact.num = 0
    ELSE DeepStacksOfResult = {}

\* a stack of 51 addresses in a profile where no other rule fires
C12_Witness ==
  /\ IsIssues
  /\ MaxRawDepth = 51
  /\ NumSamples = 2
  /\ Len(result.out) = 1
  /\ DeepStacksOfResult = {1}

(***************************************************************************)
(* C13.  The slice DetectPerformanceIssues returns is in non-increasing    *)
(* order of Impact and holds one issue per rule that fired, nothing merged *)
(* or dropped: a function above the CPU Hotspot share and above the Hot    *)
(* Loop share has both issues, and the Deep Call Stack issue comes after   *)
(* every issue of positive Impact.                                         *)
(***************************************************************************)
\* the entries of the ranking whose share of the total time is above 10%
CpuRuleFired ==
  { k \in 1..Len(result.hotspots) :
      /\ TotalDuration > 0
      /\ TimeOf(SamplesWithSig(funcSig(result.hotspots[k]))) * 100
           > HighPercent * TotalDuration }

\* the function keys present in more than 80% of the samples
HotLoopRuleFired ==
  { sig \in AllSigs : Cardinality(SamplesWithSig(sig)) * 100 > HotLoopPercent * NumSamples }

C13_SortedUnion ==
  IsIssues =>
    /\ \A k \in 1..(Len(result.out) - 1) :
         ~RatGt(result.out[k + 1].Impact, result.out[k].Impact)
    /\ Len(result.out) = (IF MaxRawDepth > DeepStackDepth THEN 1 ELSE 0)
                           + Cardinality(CpuRuleFired)
                           + Cardinality(HotLoopRuleFired)
    /\ \A k \in CpuRuleFired :
         LET hs == result.hotspots[k]
         IN funcSig(hs) \in HotLoopRuleFired =>
              \E i \in 1..Len(result.out) : \E j \in 1..Len(result.out) :
                /\ i # j
                /\ result.out[i].Category = "CPU Hotspot"
                /\ result.out[j].Category = "Hot Loop"
                /\ result.out[i].Function = hs.Function
                /\ result.out[i].Module = hs.Module
                /\ result.out[j].Function = hs.Function
                /\ result.out[j].Module = hs.Module
    /\ \A k \in DeepStacksOfResult : \A j \in 1..Len(result.out) :
         result.out[j].Impact.num > 0 => j < k

\* one function with a CPU Hotspot and a Hot Loop issue, another above the
\* CPU Hotspot share only, and the Deep Call Stack issue last
C13_Witness ==
  /\ IsIssues
  /\ Len(result.out) >= 4
  /\ DeepStacksOfResult = {Len(result.out)}
  /\ \E i \in 1..Len(result.out) : \E j \in 1..Len(result.out) :
       /\ result.out[i].Category = "CPU Hotspot"
       /\ result.out[j].Category = "Hot Loop"
       /\ result.out[i].Function = result.out[j].Function
       /\ result.out[i].Module = result.out[j].Module
  /\ \E i \in 1..(Len(result.out) - 1) :
       RatGt(result.out[i].Impact, result.out[i + 1].Impact)
         /\ result.out[i + 1].Impact.num > 0

(***************************************************************************)
(* Vocabulary of the properties of the reader.                             *)
(***************************************************************************)
IsRead == loaded.op = "ReadSleepyProfile"

\* the lines of a member that are not blank
NonBlank(lines) == { k \in 1..Len(lines) : TrimSpace(lines[k]) # <<>> }

\* the member cannot be opened, or the parser of its section returns an error
MemberFails(file) ==
  \/ ~file.opens
  \/ file.Name = StatsTxt /\ parseStats(file.lines, file.readError, EmptyStats).err # Nil
  \/ file.Name = SymbolsTxt /\ parseSymbols(file.lines, file.readError, Nil).err # Nil
  \/ file.Name = CallstacksTxt /\ parseCallstacks(file.lines, file.readError).err # Nil
  \/ file.Name = ThreadsTxt /\ parseThreads(file.lines, file.readError, Nil).err # Nil

\* the error the parser of the member's section returns
ParserError(file) ==
  CASE file.Name = StatsTxt -> parseStats(file.lines, file.readError, EmptyStats).err
    [] file.Name = SymbolsTxt -> parseSymbols(file.lines, file.readError, Nil).err
    [] file.Name = CallstacksTxt -> parseCallstacks(file.lines, file.readError).err
    [] file.Name = ThreadsTxt -> parseThreads(file.lines, file.readError, Nil).err
    [] OTHER -> Nil

\* the message that names the section of the member
WrapFormat(file) ==
  CASE file.Name = StatsTxt -> "failed to parse Stats.txt: %w"
    [] file.Name = SymbolsTxt -> "failed to parse Symbols.txt: %w"
    [] file.Name = CallstacksTxt -> "failed to parse Callstacks.txt: %w"
    [] file.Name = ThreadsTxt -> "failed to parse Threads.txt: %w"
    [] OTHER -> "none"

MembersNamed(File, name) == { i \in 1..Len(File) : File[i].Name = name }

(***************************************************************************)
(* C14.  ReadSleepyProfile returns either a Profile and no error or no     *)
(* Profile and an error, never both and never neither.  It returns a       *)
(* Profile exactly when the archive opens and no member fails; the Profile *)
(* then holds every line of every section present and its address index.   *)
(* Otherwise the error is the one of the first failing member in archive   *)
(* order, wrapped in a message that names the member.                      *)
(***************************************************************************)
C14_AtomicLoad ==
  IsRead =>
    LET archive == loaded.input
        File == archive.File
        out == loaded.out
        failing == { i \in 1..Len(File) : MemberFails(File[i]) }
    IN /\ (out.profile = Nil) # (out.err = Nil)
       /\ (out.err = Nil) <=> (archive.opens /\ failing = {})
       /\ out.err = Nil =>
            LET pd == out.profile[1]
                symbols == MembersNamed(File, SymbolsTxt)
                samples == MembersNamed(File, CallstacksTxt)
                threads == MembersNamed(File, ThreadsTxt)
            IN /\ Len(pd.Symbols)
                    = SumOver(symbols, [i \in symbols |-> Cardinality(NonBlank(File[i].lines))])
               /\ Len(pd.Callstacks)
                    = IF samples = {} THEN 0
                      ELSE Cardinality(NonBlank(File[Greatest(samples)].lines))
               /\ Len(pd.Threads)
                    = SumOver(threads, [i \in threads |->
                                          Cardinality(NonBlank(File[i].lines)) \div 2])
               /\ pd.symbolMap = buildSymbolMap(pd.Symbols)
       /\ (out.err # Nil /\ archive.opens) =>
            LET first == File[Least(failing)]
            IN IF ~first.opens
               THEN /\ out.err[1].format = "failed to open file %s in zip: %w"
                    /\ out.err[1].text = first.Name
               ELSE /\ out.err[1].format = WrapFormat(first)
                    /\ out.err[1].cause = ParserError(first)

\* a member that parses, then two failing members of different sections:
\* no Profile, and the error of the second member
C14_Witness ==
  /\ IsRead
  /\ Len(loaded.input.File) = 3
  /\ ~MemberFails(loaded.input.File[1])
  /\ loaded.input.File[1].Name = SymbolsTxt
  /\ MemberFails(loaded.input.File[2])
  /\ MemberFails(loaded.input.File[3])
  /\ loaded.input.File[2].Name # loaded.input.File[3].Name
  /\ loaded.out.profile = Nil
  /\ loaded.out.err # Nil

(***************************************************************************)
(* C15.  In a Profile that ReadSleepyProfile returns the index holds       *)
(* exactly the addresses that the address field of some symbol parses to   *)
(* (0x and hexadecimal digits), each with the last such symbol in parse    *)
(* order; a symbol whose address does not parse is in no entry and in the  *)
(* symbol list, whose length is the number of symbol lines accepted.       *)
(***************************************************************************)
\* the address the field parses to, Nil if it does not parse
AddressOf(sym) ==
  IF HasPrefix(sym.Address, <<"0", "x">>)
       /\ ParseUint16(SubSeq(sym.Address, 3, Len(sym.Address))).ok
  THEN <<ParseUint16(SubSeq(sym.Address, 3, Len(sym.Address))).val>>
  ELSE Nil

C15_LastSymbolWins ==
  (IsRead /\ loaded.out.err = Nil) =>
    LET pd == loaded.out.profile[1]
        File == loaded.input.File
        parsed == { i \in 1..Len(pd.Symbols) : AddressOf(pd.Symbols[i]) # Nil }
        members == MembersNamed(File, SymbolsTxt)
    IN /\ DOMAIN pd.symbolMap = { AddressOf(pd.Symbols[i])[1] : i \in parsed }
       /\ \A a \in DOMAIN pd.symbolMap :
            pd.symbolMap[a]
              = pd.Symbols[Greatest({ i \in parsed : AddressOf(pd.Symbols[i])[1] = a })]
       /\ Len(pd.Symbols)
            = SumOver(members, [i \in members |-> Cardinality(NonBlank(File[i].lines))])

\* two symbols of one address, the later one in the index, and a symbol
\* whose address does not parse
C15_Witness ==
  /\ IsRead
  /\ loaded.out.err = Nil
  /\ \E i \in 1..Len(loaded.out.profile[1].Symbols) :
       \E j \in 1..Len(loaded.out.profile[1].Symbols) :
         /\ i < j
         /\ AddressOf(loaded.out.profile[1].Symbols[i]) # Nil
         /\ AddressOf(loaded.out.profile[1].Symbols[i])
              = AddressOf(loaded.out.profile[1].Symbols[j])
         /\ loaded.out.profile[1].Symbols[i] # loaded.out.profile[1].Symbols[j]
  /\ \E k \in 1..Len(loaded.out.profile[1].Symbols) :
       AddressOf(loaded.out.profile[1].Symbols[k]) = Nil

(***************************************************************************)
(* C16.  parseThreads returns an error when the number of lines that are   *)
(* not blank is odd (a last id line without a name line) and when an id    *)
(* line is not an integer; for 2n such lines whose id lines are integers   *)
(* it returns no error and the n threads, in order.                        *)
(***************************************************************************)
\* the n-th element of a set of positions
Nth(S, n) == CHOOSE k \in S : Cardinality({ j \in S : j < k }) = n - 1

C16_ThreadPairing ==
  loaded.op = "parseThreads" =>
    LET lines == loaded.input
        count == Cardinality(NonBlank(lines))
        line(n) == lines[Nth(NonBlank(lines), n)]
        ids == { n \in 1..count : n % 2 = 1 }
        badId == \E n \in ids : ~Atoi(line(n)).ok
    IN /\ (count % 2 = 1 \/ badId) => loaded.out.err # Nil
       /\ (count % 2 = 0 /\ ~badId) =>
            /\ loaded.out.err = Nil
            /\ Len(loaded.out.threads) = count \div 2
            /\ \A k \in 1..(count \div 2) :
                 /\ loaded.out.threads[k].ID = Atoi(line(2 * k - 1)).val
                 /\ loaded.out.threads[k].Name = line(2 * k)

(***************************************************************************)
(* C17.  The split of a symbol line into fields drops every quote, ends a  *)
(* field at every space that has an even number of quotes before it and at *)
(* no other character, and keeps every other character, the spaces between *)
(* a pair of quotes included, in order: the fields joined by single spaces *)
(* are the line without its quotes.  The line                              *)
(* 0x1000 "My Module" "My Func" src/x.c 42 gives the module My Module, the *)
(* function My Func and the line number 42.                                *)
(***************************************************************************)
RECURSIVE JoinFields(_, _)
JoinFields(fields, k) ==
  IF k > Len(fields) THEN <<>>
  ELSE IF k = Len(fields) THEN fields[k]
  ELSE fields[k] \o <<" ">> \o JoinFields(fields, k + 1)

\* the spaces of the line outside quotes
OutsideSpaces(line) ==
  { k \in 1..Len(line) :
      /\ line[k] = " "
      /\ Cardinality({ j \in 1..(k - 1) : line[j] = Quote }) % 2 = 0 }

C17_QuotedFields ==
  /\ loaded.op = "QuotedFields" =>
       /\ \A n \in 1..Len(loaded.out) : \A k \in 1..Len(loaded.out[n]) :
            loaded.out[n][k] # Quote
       /\ Len(loaded.out) = 1 + Cardinality(OutsideSpaces(loaded.input))
       /\ JoinFields(loaded.out, 1) = SelectSeq(loaded.input, LAMBDA c : c # Quote)
  /\ (loaded.op = "parseSymbols" /\ loaded.input = <<LineExample>>) =>
       /\ loaded.out.err = Nil
       /\ Len(loaded.out.symbols) = 1
       /\ loaded.out.symbols[1].ModuleName
            = <<"M", "y", " ", "M", "o", "d", "u", "l", "e">>
       /\ loaded.out.symbols[1].ProcName = <<"M", "y", " ", "F", "u", "n", "c">>
       /\ loaded.out.symbols[1].LineNumber = 42

\* a line with a space between quotes, kept in its field, and spaces
\* outside quotes
C17_Witness ==
  /\ loaded.op = "QuotedFields"
  /\ Len(loaded.out) = 5
  /\ \E n \in 1..Len(loaded.out) : \E k \in 1..Len(loaded.out[n]) :
       loaded.out[n][k] = " "
  /\ \E k \in 1..Len(loaded.input) : loaded.input[k] = Quote

(***************************************************************************)
(* C18.  As stated: parseSymbols rejects, with an error that holds the     *)
(* line, the first line that is not blank and has fewer than five fields   *)
(* or a last field that is not an integer, and adds no Symbol for it; for  *)
(* every line before it that is not blank it adds one Symbol made of its   *)
(* first five fields, and without such a line it returns no error.         *)
(***************************************************************************)
IsSymbols == loaded.op = "parseSymbols"

\* the Symbol of the first five fields of a line
SymbolOf(line) ==
  Sym(QuotedFields(line)[1], QuotedFields(line)[2], QuotedFields(line)[3],
      QuotedFields(line)[4], Atoi(QuotedFields(line)[5]).val)

\* what parseSymbols returned, for the set of positions of the lines to reject
SymbolsParsedRejecting(rejected) ==
  LET lines == loaded.input
      kept == IF rejected = {} THEN NonBlank(lines)
              ELSE { k \in NonBlank(lines) : k < Least(rejected) }
  IN /\ (loaded.out.err = Nil) <=> (rejected = {})
     /\ rejected # {} => loaded.out.err[1].text = lines[Least(rejected)]
     /\ Len(loaded.out.symbols) = Cardinality(kept)
     /\ \A n \in 1..Cardinality(kept) :
          /\ Len(QuotedFields(lines[Nth(kept, n)])) >= 5
          /\ loaded.out.symbols[n] = SymbolOf(lines[Nth(kept, n)])

C18_LastFieldInteger ==
  IsSymbols =>
    SymbolsParsedRejecting(
      { k \in NonBlank(loaded.input) :
          \/ Len(QuotedFields(loaded.input[k])) < 5
          \/ ~Atoi(QuotedFields(loaded.input[k])[Len(QuotedFields(loaded.input[k]))]).ok })

(***************************************************************************)
(* C18 as amended: parseSymbols rejects, with an error that holds the      *)
(* line, the first line that is not blank and has fewer than five fields   *)
(* or a fifth field that is not an integer, whatever follows the fifth     *)
(* field, and adds no Symbol for it; for every line before it that is not  *)
(* blank it adds one Symbol made of its first five fields, and without     *)
(* such a line it returns no error.                                        *)
(***************************************************************************)
C18_FifthFieldInteger ==
  IsSymbols =>
    SymbolsParsedRejecting(
      { k \in NonBlank(loaded.input) :
          \/ Len(QuotedFields(loaded.input[k])) < 5
          \/ ~Atoi(QuotedFields(loaded.input[k])[5]).ok })

\* six fields with an integer fifth and a last field that is none: one
\* Symbol; then six fields with a fifth that is no integer: the error
C18_Witness ==
  /\ IsSymbols
  /\ loaded.input = <<LineSixText, LineSixNumber>>
  /\ Len(loaded.out.symbols) = 1
  /\ loaded.out.symbols[1].LineNumber = 7
  /\ loaded.out.err # Nil
  /\ loaded.out.err[1].text = LineSixNumber

AnalysisTools ==
  {"find_hotspots", "find_bottom_functions", "analyze_modules",
   "detect_performance_issues", "get_statistics", "view_callstack"}

\* the request names a path and, for view_callstack, an index
HasItsArguments(r) ==
  /\ r.request.file_path # Nil
  /\ r.tool = "view_callstack" => r.request.callstack_index # Nil

\* the response is one the tool gives when it analyses the Profile pd
AnalysisOf(r, pd) ==
  IF r.tool = "find_hotspots"
  THEN ~r.isError /\ r.data \in FindHotspots(pd, TopNOf(r.request))
  ELSE IF r.tool = "find_bottom_functions"
  THEN ~r.isError /\ r.data \in FindBottomFunctions(pd, TopNOf(r.request))
  ELSE IF r.tool = "analyze_modules"
  THEN ~r.isError /\ r.data = FindModuleHotspots(pd)
  ELSE IF r.tool = "detect_performance_issues"
  THEN ~r.isError /\ \E d \in DetectPerformanceIssues(pd) : r.data = d.issues
  ELSE IF r.tool = "get_statistics"
  THEN ~r.isError /\ r.data = ComputeStatistics(pd)
  ELSE LET n == IntOf(r.request.callstack_index[1])
       IN IF n \in 1..Len(pd.Callstacks)
          THEN /\ ~r.isError
               /\ r.data = [Duration |-> GetDuration(pd.Callstacks[n]),
                            frames |-> ResolveCallstack(pd, pd.Callstacks[n])]
          ELSE /\ r.isError
               /\ r.message # NotLoaded
               /\ r.data = Len(pd.Callstacks)

\* C20: an analysis tool called (with its required arguments) for the path
\* p answers "Profile not loaded. Use load_profile tool first" iff no
\* earlier load_profile of exactly the string p has succeeded; otherwise
\* it analyses the Profile that the most recent successful load_profile of
\* p read, whatever other paths were loaded in between.
C20_LoadBeforeUse ==
  /\ DOMAIN profileCache = DOMAIN lastLoaded
  /\ \A path \in DOMAIN lastLoaded : profileCache[path] = lastLoaded[path]
  /\ (response.tool \in AnalysisTools /\ HasItsArguments(response)) =>
       LET p == response.request.file_path[1]
       IN /\ (response.isError /\ response.message = NotLoaded)
               <=> p \notin DOMAIN lastLoaded
          /\ p \in DOMAIN lastLoaded => AnalysisOf(response, lastLoaded[p])

\* find_hotspots has answered for "a.sleepy" with the hotspots of its
\* Profile while "./a.sleepy" holds another Profile
C20_Witness ==
  /\ response.tool = "find_hotspots"
  /\ response.request.file_path = <<"a.sleepy">>
  /\ ~response.isError
  /\ Len(response.data) > 0
  /\ "./a.sleepy" \in DOMAIN profileCache
  /\ profileCache["./a.sleepy"] # profileCache["a.sleepy"]
  /\ response.data \notin FindHotspots(profileCache["./a.sleepy"], TopNOf(response.request))

(***************************************************************************)
(* C21                                                                     *)
(***************************************************************************)
IsWhole(x) == x.num % x.den = 0

\* C21: view_callstack with a whole 1-based callstack_index i, on a loaded
\* Profile of n samples, answers with the duration and the resolved frames
\* of sample i (position i - 1 of the slice) when 1 <= i <= n, and otherwise
\* (i < 1 or i > n, every i when n = 0) with the error that states the range
\* 1-n and nothing of any sample; an analysis tool called with its required
\* arguments gives no other error than this one and the not-loaded error.
C21_IndexRange ==
  (response.tool \in AnalysisTools /\ HasItsArguments(response)) =>
    /\ response.isError => response.message \in {NotLoaded, InvalidIndex}
    /\ response.message = InvalidIndex => response.tool = "view_callstack"
    /\ ( /\ response.tool = "view_callstack"
         /\ response.request.file_path[1] \in DOMAIN lastLoaded
         /\ IsWhole(response.request.callstack_index[1]) ) =>
         LET pd == lastLoaded[response.request.file_path[1]]
             n == Len(pd.Callstacks)
             at == response.request.callstack_index[1]
             i == CHOOSE k \in -1..(MaxIndex + 1) : k * at.den = at.num
         IN IF 1 <= i /\ i <= n
            THEN /\ ~response.isError
                 /\ response.data.frames = ResolveCallstack(pd, pd.Callstacks[i])
                 /\ Len(response.data.frames) = Len(pd.Callstacks[i].Addresses)
                 /\ response.data.Duration = GetDuration(pd.Callstacks[i])
            ELSE /\ response.isError
                 /\ response.message = InvalidIndex
                 /\ response.data = n

\* view_callstack has refused the index n + 1 of a Profile of n = 2 samples
C21_Witness ==
  /\ response.tool = "view_callstack"
  /\ response.request.file_path # Nil
  /\ response.request.file_path[1] \in DOMAIN profileCache
  /\ Len(profileCache[response.request.file_path[1]].Callstacks) = 2
  /\ response.request.callstack_index = <<[num |-> 3, den |-> 1]>>
  /\ response.isError
  /\ response.message = InvalidIndex
  /\ response.data = 2

(***************************************************************************)
(* C23                                                                     *)
(***************************************************************************)
IsFullBottom == result.op = "FindBottomFunctions" /\ result.args[1] = 0

\* the samples that have an address
NonEmptySamples == { i \in 1..NumSamples : Len(profile.Callstacks[i].Addresses) > 0 }

\* the (module, function) of the index-0 frame of a sample that has one
LeafPairOf(i) == <<FramesOf(i)[1].Module, FramesOf(i)[1].Function>>

SamplesWithLeaf(pair) == { i \in NonEmptySamples : LeafPairOf(i) = pair }

\* C23: FindBottomFunctions gives each sample that has an address to exactly
\* one entry, the one of the (module, function) of its index-0 frame, with
\* its duration and one sample count; a sample without addresses is in no
\* entry.  Over the full result the SampleCounts sum to the number of
\* non-empty samples, the TotalTimes to their durations, and each
\* percentage is TotalTime against the durations of all samples.
C23_LeafAccounting ==
  IsFullBottom =>
    /\ \A k \in 1..Len(result.out) :
         LET with == SamplesWithLeaf(<<result.out[k].Module, result.out[k].Function>>)
         IN /\ result.out[k].SampleCount = Cardinality(with)
            /\ result.out[k].TotalTime = TimeOf(with)
            /\ TotalDuration > 0 =>
                 RatEq(result.out[k].Percentage,
                       Percent(result.out[k].TotalTime, TotalDuration))
    /\ \A i \in NonEmptySamples :
         Cardinality({ k \in 1..Len(result.out) :
                         <<result.out[k].Module, result.out[k].Function>> = LeafPairOf(i) }) = 1
    /\ SumOver(1..Len(result.out), [k \in 1..Len(result.out) |-> result.out[k].SampleCount])
         = Cardinality(NonEmptySamples)
    /\ SumOver(1..Len(result.out), [k \in 1..Len(result.out) |-> result.out[k].TotalTime])
         = TimeOf(NonEmptySamples)

(***************************************************************************)
(* C24                                                                     *)
(***************************************************************************)
\* the module name of a frame after the empty name and "?" are mapped to
\* "[unknown]"
BucketOf(frame) ==
  IF frame.Module = <<>> \/ frame.Module = <<"?">> THEN UnknownModule ELSE frame.Module

BucketsOf(i) == { BucketOf(FramesOf(i)[k]) : k \in 1..Len(FramesOf(i)) }

\* C24: FindModuleHotspots has a key for exactly the module names, after the
\* empty name and "?" are mapped to "[unknown]", that some frame of some
\* sample has, and the value of a key is the sum of the durations of the
\* samples with at least one frame in it, each sample counted once.
C24_ModuleTimes ==
  result.op = "FindModuleHotspots" =>
    /\ DOMAIN result.out = UNION { BucketsOf(i) : i \in 1..NumSamples }
    /\ \A module \in DOMAIN result.out :
         result.out[module] = TimeOf({ i \in 1..NumSamples : module \in BucketsOf(i) })

\* the module times of a Profile in which a sample has two frames in one
\* bucket, with a duration above 0, and some frame is in "[unknown]"
C24_Witness ==
  /\ result.op = "FindModuleHotspots"
  /\ UnknownModule \in DOMAIN result.out
  /\ \E i \in 1..NumSamples : \E j, k \in 1..Len(FramesOf(i)) :
       /\ j < k
       /\ BucketOf(FramesOf(i)[j]) = BucketOf(FramesOf(i)[k])
       /\ DurationOf(i) > 0

(***************************************************************************)
(* C25                                                                     *)
(***************************************************************************)
\* the well-formed sample lines of the model and the duration each states
WrittenDuration ==
  (SampleA :> 3) @@ (SampleB :> 17) @@ (SampleDurationOnly :> 5) @@ (SamplePadded :> 3)

\* C25: when every line of a sample table that is not blank is well formed,
\* parseCallstacks returns one sample per such line, in line order, and the
\* k-th sample holds exactly one entry of identifier to duration: its
\* identifier is k and its value the duration of that line, so GetDuration
\* returns that duration whichever entry the iteration meets first.
C25_SequentialIds ==
  ( /\ loaded.op = "parseCallstacks"
    /\ \A j \in NonBlank(loaded.input) : loaded.input[j] \in DOMAIN WrittenDuration ) =>
    /\ loaded.out.err = Nil
    /\ Len(loaded.out.callstacks) = Cardinality(NonBlank(loaded.input))
    /\ \A k \in 1..Len(loaded.out.callstacks) :
         LET cs == loaded.out.callstacks[k]
             written == WrittenDuration[loaded.input[Nth(NonBlank(loaded.input), k)]]
         IN /\ DOMAIN cs.ThreadCounts = {k}
            /\ \A id \in DOMAIN cs.ThreadCounts : cs.ThreadCounts[id] = written
            /\ GetDuration(cs) = written

\* three samples parsed from a table with a blank line between them
C25_Witness ==
  /\ loaded.op = "parseCallstacks"
  /\ Len(loaded.input) = 3
  /\ TrimSpace(loaded.input[2]) = <<>>
  /\ loaded.out.err = Nil
  /\ Len(loaded.out.callstacks) = 2
  /\ GetDuration(loaded.out.callstacks[2]) = 17

(***************************************************************************)
(* C22                                                                     *)
(***************************************************************************)
\* C22: when ReadSleepyProfile returns, with a Profile or with any of its
\* errors (the archive or a member does not open, the parser of a member in
\* any position fails), every archive handle and member stream the call
\* opened is closed.
C22_HandlesClosed ==
  loaded.out.pc = "returned" =>
    /\ loaded.out.open = {}
    /\ loaded.input.opens => ReaderHandle \in loaded.out.opened
    /\ loaded.out.ret = ReadSleepyProfile(loaded.input)

\* the call has returned the error of the parser of the second member after
\* it opened the archive and two streams
C22_Witness ==
  /\ loaded.out.pc = "returned"
  /\ loaded.out.opened = {ReaderHandle, 1, 2}
  /\ loaded.out.open = {}
  /\ loaded.out.ret.err # Nil

(***************************************************************************)
(* C26                                                                     *)
(***************************************************************************)
\* C26: a load_profile that fails leaves the profile cache as it was: a path
\* loaded before still maps to the Profile it had, a path never loaded stays
\* absent.  A load_profile of p that succeeds sets the entry of p to the
\* Profile it read and changes the entry of no other path.  The analysis
\* tools, which are what later reads the cache, do not change it either.
C26_CacheFrame ==
  [][ /\ (response'.tool = "load_profile" /\ response'.isError) =>
           profileCache' = profileCache
      /\ (response'.tool = "load_profile" /\ ~response'.isError) =>
           LET p == response'.request.file_path[1]
           IN /\ DOMAIN profileCache' = DOMAIN profileCache \cup {p}
              /\ \A q \in DOMAIN profileCache \ {p} : profileCache'[q] = profileCache[q]
              /\ Len(profileCache'[p].Callstacks) = response'.data.Callstacks
              /\ Len(profileCache'[p].Symbols) = response'.data.Symbols
              /\ \E archive \in ToolArchives :
                   ReadSleepyProfile(archive) = [profile |-> <<profileCache'[p]>>, err |-> Nil]
      /\ response'.tool \in AnalysisTools => profileCache' = profileCache
    ]_vars

\* a load_profile of a path has failed while the cache holds the Profile of
\* an earlier load of that path and the Profile of another path
C26_Witness ==
  /\ response.tool = "load_profile"
  /\ response.isError
  /\ response.request.file_path # Nil
  /\ DOMAIN profileCache = Paths
  /\ profileCache["a.sleepy"] # profileCache["./a.sleepy"]
  /\ profileCache = lastLoaded

====
